---- MODULE Spec2Model ----
(***************************************************************************)
(* Model of the supervision-risk-scanner single page application:          *)
(*   - the Graph API wrappers (utils/graphApi) as far as they decide       *)
(*     whether a call of the collector's batch reports success,            *)
(*   - ScanProvider (contexts/ScanContext): fetchMicrosoftGraphData,       *)
(*     generateScan, startScan, getScanById, convertToLatestScanData,      *)
(*     fixIssue, clearScanHistory and the two effects,                     *)
(*   - AuthProvider (contexts/AuthContext) as far as it decides tenantId   *)
(*     and accessToken,                                                    *)
(*   - the page handlers that call into the provider                       *)
(*     (Dashboard.handleStartScan, ScanResults.calculateSecurityScore).    *)
(*                                                                         *)
(* JavaScript objects are records; a property that is absent (undefined)   *)
(* is a field that is not in the DOMAIN of the record.  JSON.stringify     *)
(* drops undefined properties, which is what Stringify does.  Strings the  *)
(* code searches with includes() are sequences of path segments.           *)
(***************************************************************************)
EXTENDS Integers, Sequences, FiniteSets, TLC

\* ------------------------------------------------------------------------
\* Bounds of the model
\* ------------------------------------------------------------------------
MaxFailed == 2      \* failed Graph requests in one collection
MaxScans == 2       \* scans completed in one behaviour of Spec
MaxIssues == 7      \* issues of an issue set in SpecScore

\* ------------------------------------------------------------------------
\* Program constants
\* ------------------------------------------------------------------------
HighWeight == 15
MediumWeight == 7
LowWeight == 3
MaxScore == 100
HistoryLimit == 10

Severities == {"High", "Medium", "Low"}

\* ------------------------------------------------------------------------
\* Generic helpers
\* ------------------------------------------------------------------------
Has(r, f) == f \in DOMAIN r

Max2(a, b) == IF a >= b THEN a ELSE b
Min2(a, b) == IF a <= b THEN a ELSE b

\* Array.prototype.slice(0, n)
Slice0(s, n) == SubSeq(s, 1, Min2(Len(s), n))

\* String.prototype.includes on a path: the keyword is one of its segments
Includes(path, keyword) == \E i \in 1..Len(path) : path[i] = keyword

\* ------------------------------------------------------------------------
\* Risk scoring
\* ------------------------------------------------------------------------
CountSeverity(issues, sev) ==
  Cardinality({i \in 1..Len(issues) : issues[i].severity = sev})

\* generateScan's score without the Math.max(..., 0) floor
RiskScore_NoFloor(h, m, l) ==
  IF h > 0 \/ m > 0 \/ l > 0
  THEN Min2(MaxScore + (0 - HighWeight) * h + (0 - MediumWeight) * m
                     + (0 - LowWeight) * l, MaxScore)
  ELSE MaxScore

\* generateScan: Math.max(Math.min(100 + highImpact + mediumImpact + lowImpact, 100), 0)
RiskScore(h, m, l) ==
  IF h > 0 \/ m > 0 \/ l > 0
  THEN Max2(Min2(MaxScore + (0 - HighWeight) * h + (0 - MediumWeight) * m
                          + (0 - LowWeight) * l, MaxScore), 0)
  ELSE MaxScore

OverallRiskScore(issues) ==
  RiskScore(CountSeverity(issues, "High"), CountSeverity(issues, "Medium"),
            CountSeverity(issues, "Low"))

\* ScanResults.calculateSecurityScore: issues that are Fixed are not counted
CountOpenSeverity(issues, sev) ==
  Cardinality({i \in 1..Len(issues) :
                 issues[i].severity = sev /\ issues[i].status # "Fixed"})

\* calculateSecurityScore with a Medium issue weighing as much as a Low one
CalculateSecurityScore_MediumAsLow(issues) ==
  LET h == CountOpenSeverity(issues, "High")
      m == CountOpenSeverity(issues, "Medium")
      l == CountOpenSeverity(issues, "Low")
  IN IF h > 0 \/ m > 0 \/ l > 0
     THEN Max2(Min2(MaxScore + (0 - HighWeight) * h + (0 - LowWeight) * m
                             + (0 - LowWeight) * l, MaxScore), 0)
     ELSE MaxScore

CalculateSecurityScore(issues) ==
  LET h == CountOpenSeverity(issues, "High")
      m == CountOpenSeverity(issues, "Medium")
      l == CountOpenSeverity(issues, "Low")
  IN IF h > 0 \/ m > 0 \/ l > 0
     THEN Max2(Min2(MaxScore + (0 - HighWeight) * h + (0 - MediumWeight) * m
                             + (0 - LowWeight) * l, MaxScore), 0)
     ELSE MaxScore

\* ------------------------------------------------------------------------
\* Graph API wrappers and the parallel collector
\* ------------------------------------------------------------------------
\* The 29 calls of the batch, numbered as the positions of Promise.all
Calls == 0..28

\* Number of Graph requests a wrapper issues through callGraphApi
RequestCount(i) ==
  IF i = 25 THEN 3
  ELSE IF i \in {3, 13, 15, 17, 20, 21, 24, 28} THEN 2
  ELSE 1

\* A request is <<call, k>>: the k-th callGraphApi of wrapper `call`
Requests == {<<i, k>> : i \in Calls, k \in 1..3} \ {<<i, k>> \in Calls \X (1..3) : k > RequestCount(i)}

\* Wrappers that answer success: true whichever of their requests failed
TolerantCalls == {15, 17, 20, 21, 24, 25}

\* Wrappers that hand the response of their one request through unchanged
PassThroughCalls == {i \in Calls : RequestCount(i) = 1}

\* The requests whose failure makes the wrapper answer success: false
\* (checkUsersWithoutMFA: the credential report; checkUnusedLicenses: both;
\* checkEmailAuthentication: the domain list)
RequiredRequests(i) ==
  IF i \in TolerantCalls THEN {}
  ELSE IF i = 13 THEN {<<13, 1>>, <<13, 2>>}
  ELSE {<<i, 1>>}

\* The requests whose successful response the wrapper reads as
\* `response.data.value` (or `.data.enabled`) inside its try block: a 2xx
\* response whose JSON body is null makes that read throw, and the wrapper's
\* catch answers success: false
DereferencedRequests(i) ==
  IF i \in PassThroughCalls THEN {}
  ELSE IF i = 17 THEN {<<17, 1>>}
  ELSE IF i = 21 THEN {<<21, 2>>}
  ELSE {<<i, k>> : k \in 1..RequestCount(i)}

\* The success flag a wrapper reports when the requests in `failed` did not
\* return 2xx (callGraphApi turns non-2xx and network errors into success:
\* false) and the requests in `nullBody` returned 2xx with the JSON body null
\* (callGraphApi answers success: true, data: null)
CallSuccess(i, failed, nullBody) ==
  /\ RequiredRequests(i) \cap failed = {}
  /\ DereferencedRequests(i) \cap nullBody = {}

\* A wrapper answered success: true with data: null
CallDataIsNull(i, failed, nullBody) ==
  i \in PassThroughCalls /\ CallSuccess(i, failed, nullBody) /\ <<i, 1>> \in nullBody

\* JavaScript values of the result bag
JsList(items) == [kind |-> "list", items |-> items]
JsNull == [kind |-> "null"]
JsUndefined == [kind |-> "undefined"]
JsObject == [kind |-> "object"]

DatasetNames ==
  << "users", "tenantInfo", "inactiveUsers", "mfaStatus", "groups",
     "passwordNeverExpires", "riskyUsers", "emailForwarding", "privilegedRoles",
     "guestUsers", "sharedMailboxes", "deviceCompliance", "conditionalAccess",
     "unusedLicenses", "securityDefaults", "authStrengthPolicies",
     "namedLocations", "legacyAuthStatus", "passwordResetPolicy",
     "administrativeUnits", "pimConfiguration", "sharePointSharing",
     "dlpPolicies", "retentionPolicies", "organizationSettings",
     "defenderForOffice", "intuneCompliancePolicies", "exchangeTransportRules",
     "emailAuthentication" >>

DatasetName(i) == DatasetNames[i + 1]

\* Datasets read as `response.data` (default null); the others are read as
\* `response.data.value` (default [])
ObjectCalls == {1, 14, 15, 17, 18, 20, 21, 24, 25, 28}

DatasetDefault(i) == IF i \in ObjectCalls THEN JsNull ELSE JsList(<<>>)

\* What the bag holds for a successful call, given the tenant's data
DatasetValue(i, data, dataIsNull) ==
  IF dataIsNull THEN JsNull
  ELSE IF i = 1 THEN [kind |-> "object", displayName |-> data.tenantName]
  ELSE IF i = 2 THEN JsList(data.inactiveUsers)
  ELSE IF i = 3 THEN JsList(data.mfaStatus)
  ELSE IF i = 6 THEN JsList(data.riskyUsers)
  ELSE IF i = 7 THEN JsList(data.emailForwarding)
  ELSE IF i = 9 THEN JsList(data.guestUsers)
  ELSE IF i = 13 THEN JsUndefined   \* checkUnusedLicenses' data has no `value`
  ELSE IF i \in ObjectCalls THEN JsObject
  ELSE JsList(data.otherRows)

\* endpointMap, in the order of Object.entries
EndpointMap ==
  << [endpoint |-> <<"users">>, indices |-> <<0, 2, 3>>],
     [endpoint |-> <<"organization">>, indices |-> <<1>>],
     [endpoint |-> <<"groups">>, indices |-> <<4>>],
     [endpoint |-> <<"users", "passwordPolicies">>, indices |-> <<5>>],
     [endpoint |-> <<"identityProtection", "riskyUsers">>, indices |-> <<6>>],
     [endpoint |-> <<"users", "mailFolders", "messageRules">>, indices |-> <<7>>],
     [endpoint |-> <<"directoryRoles">>, indices |-> <<8>>],
     [endpoint |-> <<"users", "guestUsers">>, indices |-> <<9>>],
     [endpoint |-> <<"users", "mailboxSettings">>, indices |-> <<10>>],
     [endpoint |-> <<"deviceManagement", "mobileThreatDefenseConnectors">>, indices |-> <<11>>],
     [endpoint |-> <<"identity", "conditionalAccess", "policies">>, indices |-> <<12>>],
     [endpoint |-> <<"subscribedSkus">>, indices |-> <<13>>],
     [endpoint |-> <<"policies", "identitySecurityDefaultsEnforcementPolicy">>, indices |-> <<14>>],
     [endpoint |-> <<"identity", "authenticationStrengthPolicies">>, indices |-> <<15>>],
     [endpoint |-> <<"identity", "conditionalAccess", "namedLocations">>, indices |-> <<16>>],
     [endpoint |-> <<"policies", "authenticationMethodsPolicy">>, indices |-> <<17, 18>>],
     [endpoint |-> <<"administrativeUnits">>, indices |-> <<19>>],
     [endpoint |-> <<"roleManagement", "directory", "roleSettings">>, indices |-> <<20>>],
     [endpoint |-> <<"admin", "sharepoint", "settings">>, indices |-> <<21>>],
     [endpoint |-> <<"security", "dataLossPreventionPolicies">>, indices |-> <<22>>],
     [endpoint |-> <<"security", "informationProtection", "policy", "labels">>, indices |-> <<23>>],
     [endpoint |-> <<"security", "threatIntelligence", "antiphishPolicies">>, indices |-> <<25>>],
     [endpoint |-> <<"deviceManagement", "deviceCompliancePolicies">>, indices |-> <<26>>],
     [endpoint |-> <<"admin", "exchange", "transportRules">>, indices |-> <<27>>],
     [endpoint |-> <<"domains">>, indices |-> <<28>>] >>

\* `graph.microsoft.com/beta/${endpoint}`
ErrorString(endpoint) == <<"graph.microsoft.com", "beta">> \o endpoint

\* `responses`: the success flag of every call of the batch
Responses(failed, nullBody) == [i \in Calls |-> CallSuccess(i, failed, nullBody)]

RECURSIVE ErrorsOfIndices(_, _, _)
ErrorsOfIndices(endpoint, indices, responses) ==
  IF indices = <<>> THEN <<>>
  ELSE (IF responses[Head(indices)] THEN <<>>
        ELSE <<ErrorString(endpoint)>>)
       \o ErrorsOfIndices(endpoint, Tail(indices), responses)

RECURSIVE CollectApiErrors(_, _)
CollectApiErrors(entries, responses) ==
  IF entries = <<>> THEN <<>>
  ELSE ErrorsOfIndices(Head(entries).endpoint, Head(entries).indices, responses)
       \o CollectApiErrors(Tail(entries), responses)

\* Building the bag reads `response.data.value` of a successful call whose
\* data is null: the TypeError lands in the collector's catch
ExtractionThrows(failed, nullBody) ==
  \E i \in (Calls \ ObjectCalls) \cup {1} : CallDataIsNull(i, failed, nullBody)

\* fetchMicrosoftGraphData: the bag it resolves with. The bag of the catch
\* block has no dataset at all.
FetchMicrosoftGraphData(failed, nullBody, data) ==
  LET responses == Responses(failed, nullBody)
  IN IF ExtractionThrows(failed, nullBody)
     THEN [ success |-> FALSE, apiErrors |-> <<>>, error |-> "TypeError" ]
     ELSE [ success |-> \E i \in Calls : responses[i],
            apiErrors |-> CollectApiErrors(EndpointMap, responses),
            datasets |-> [ n \in {DatasetName(i) : i \in Calls} |->
                             LET i == CHOOSE j \in Calls : DatasetName(j) = n
                             IN IF responses[i]
                                THEN DatasetValue(i, data,
                                                  CallDataIsNull(i, failed, nullBody))
                                ELSE DatasetDefault(i) ] ]

\* ------------------------------------------------------------------------
\* generateScan
\* ------------------------------------------------------------------------
MapSeq(s, Op(_)) == [i \in 1..Len(s) |-> Op(s[i])]

\* user.userPrincipalName || fallback
PrincipalName(user, fallback) ==
  IF Has(user, "userPrincipalName") THEN user.userPrincipalName ELSE fallback

\* rule.forwardTo.endsWith(suffix): an address is <<local part, domain>>
EndsWith(address, suffix) == suffix = "" \/ address[Len(address)] = suffix

\* realData.<dataset>?.length > 1
NonEmptyList_MoreThanOne(realData, name) ==
  /\ realData.datasets[name].kind = "list"
  /\ Len(realData.datasets[name].items) > 1

\* realData.<dataset>?.length > 0
NonEmptyList(realData, name) ==
  /\ realData.datasets[name].kind = "list"
  /\ Len(realData.datasets[name].items) > 0

MultipleIssue(id, type, severity, objectType, objectName, items) ==
  [ id |-> id, type |-> type, severity |-> severity,
    affectedObject |-> [type |-> objectType, id |-> "multiple", name |-> objectName],
    status |-> "Open", isRealData |-> TRUE, affectedItems |-> items ]

\* The keyword classifier of failed endpoints
ErrorType(error) ==
  IF Includes(error, "identityProtection") THEN "Identity Protection"
  ELSE IF Includes(error, "mailFolders") THEN "Mail Settings"
  ELSE IF Includes(error, "security") THEN "Security Settings"
  ELSE IF Includes(error, "subscribedSkus") THEN "License Management"
  ELSE "API Access"

\* errorType.toLowerCase().replace(/\s+/g, '_')
ErrorTypeSlug(errorType) ==
  CASE errorType = "Identity Protection" -> "identity_protection"
    [] errorType = "Mail Settings" -> "mail_settings"
    [] errorType = "Security Settings" -> "security_settings"
    [] errorType = "License Management" -> "license_management"
    [] OTHER -> "api_access"

RECURSIVE ErrorTypesInOrder(_, _)
\* Keys of errorsByType in insertion order: the order of first occurrence
ErrorTypesInOrder(errors, seen) ==
  IF errors = <<>> THEN <<>>
  ELSE LET t == ErrorType(Head(errors))
       IN IF t \in seen THEN ErrorTypesInOrder(Tail(errors), seen)
          ELSE <<t>> \o ErrorTypesInOrder(Tail(errors), seen \cup {t})

ApiErrorIssues(apiErrors, now) ==
  MapSeq(ErrorTypesInOrder(apiErrors, {}),
         LAMBDA t : MultipleIssue(
                      "api_error_" \o ErrorTypeSlug(t) \o "_" \o ToString(now),
                      t \o " Access Required", "Medium", "Policy", t,
                      SelectSeq(apiErrors, LAMBDA e : ErrorType(e) = t)))

\* The issues generateScan pushes, in the order of the detectors
DetectIssues(tenantName, realData, now) ==
  LET ds == realData.datasets
      stamp == ToString(now)
      risky ==
        IF NonEmptyList(realData, "riskyUsers")
        THEN << MultipleIssue("risky_users_" \o stamp, "Risky Users Detected", "High",
                  "User", "Multiple Users",
                  MapSeq(ds["riskyUsers"].items,
                         LAMBDA u : PrincipalName(u, "Unknown User"))) >>
        ELSE <<>>
      usersWithoutMFA ==
        IF NonEmptyList(realData, "mfaStatus")
        THEN SelectSeq(ds["mfaStatus"].items, LAMBDA u : ~u.isMfaEnabled)
        ELSE <<>>
      mfa ==
        IF Len(usersWithoutMFA) > 0
        THEN << MultipleIssue("mfa_disabled_" \o stamp, "MFA Not Configured", "High",
                  "User", "Multiple Users",
                  MapSeq(usersWithoutMFA,
                         LAMBDA u : PrincipalName(u, "Unknown User"))) >>
        ELSE <<>>
      inactive ==
        IF NonEmptyList(realData, "inactiveUsers")
        THEN << MultipleIssue("inactive_users_" \o stamp, "Inactive Accounts", "Medium",
                  "User", "Multiple Users",
                  MapSeq(ds["inactiveUsers"].items,
                         LAMBDA u : PrincipalName(u, "Unknown User"))) >>
        ELSE <<>>
      externalForwarding ==
        IF NonEmptyList(realData, "emailForwarding")
        THEN SelectSeq(ds["emailForwarding"].items,
                       LAMBDA r : Has(r, "forwardTo")
                                  /\ ~EndsWith(r.forwardTo, tenantName))
        ELSE <<>>
      forwarding ==
        IF Len(externalForwarding) > 0
        THEN << MultipleIssue("forwarding_rules_" \o stamp, "External Email Forwarding",
                  "Medium", "Mailbox", "Multiple Mailboxes",
                  MapSeq(externalForwarding,
                         LAMBDA r : IF Has(r, "mailbox") THEN r.mailbox
                                    ELSE "Unknown Mailbox")) >>
        ELSE <<>>
      apiIssues ==
        IF Len(realData.apiErrors) > 0 THEN ApiErrorIssues(realData.apiErrors, now)
        ELSE <<>>
      guests ==
        IF NonEmptyList(realData, "guestUsers")
        THEN << MultipleIssue("guest_users_" \o stamp, "Guest User Access", "Low",
                  "User", "Multiple Guest Users",
                  MapSeq(ds["guestUsers"].items,
                         LAMBDA u : PrincipalName(u, "Unknown Guest"))) >>
        ELSE <<>>
  IN risky \o mfa \o inactive \o forwarding \o apiIssues \o guests

\* scanId = `scan_${Date.now().toString(36)}`
ScanIdAt(now) == "scan_" \o ToString(now)

\* generateScan(accessToken, tenantId, tenantName, realData); tenantName "" stands
\* for undefined (the code reads it only as `tenantName || ...`); realData is a
\* bag or JsNull
GenerateScan(tenantId, tenantName, realData, now) ==
  LET issues == IF Has(realData, "datasets")
                THEN DetectIssues(tenantName, realData, now) ELSE <<>>
      severityCount == [ High |-> CountSeverity(issues, "High"),
                         Medium |-> CountSeverity(issues, "Medium"),
                         Low |-> CountSeverity(issues, "Low") ]
  IN [ summary |-> [ id |-> ScanIdAt(now),
                     timestamp |-> now,
                     tenantId |-> tenantId,
                     tenantName |-> IF tenantName = "" THEN "Your Microsoft 365 Tenant"
                                    ELSE tenantName,
                     overallRiskScore |-> RiskScore(severityCount.High,
                                            severityCount.Medium, severityCount.Low),
                     issueCountsBySeverity |-> severityCount ],
       issues |-> issues,
       apiErrors |-> IF Has(realData, "apiErrors") THEN realData.apiErrors ELSE <<>>,
       usesRealData |-> TRUE ]

\* startScan's call of generateScan on the collector's result
ScanOfGraphResult(tenantId, graphResult, now) ==
  GenerateScan(tenantId,
               IF graphResult.success /\ graphResult.datasets["tenantInfo"].kind = "object"
               THEN graphResult.datasets["tenantInfo"].displayName ELSE "",
               IF graphResult.success THEN graphResult ELSE JsNull,
               now)

\* ------------------------------------------------------------------------
\* State
\* ------------------------------------------------------------------------
VARIABLES
  \* AuthProvider
  isAuthenticated,   \* useState isAuthenticated
  accessToken,       \* useState accessToken: "null" or a token
  tenantId,          \* useState tenantId: "null" or a tenant
  pendingCode,       \* tenant of the handleAuthCallback in flight, or "null"
  \* ScanProvider
  isScanning,        \* useState isScanning
  isFixing,          \* useState isFixing: "null" or an issue id
  currentScan,       \* useState currentScan: JsNull or a ScanData
  scanHistory,       \* useState scanHistory: sequence of ScanSummary
  latestScan,        \* useState latestScan: JsNull or a LatestScanData
  scanJob,           \* the startScan call in flight (its closure), or JsNull
  fixJobs,           \* the fixIssue calls waiting for their 2 s timer
  \* localStorage
  authKeys,          \* accessToken/tenantId/expiresAt keys: "null" or the tenant
  historyKeys,       \* scanHistory_<tenantId> keys: tenant -> JSON text
  scanKeys,          \* scan_<scanId> keys: scan id -> JSON text
  \* environment and observation
  now,               \* Date.now() of the last generated scan
  uncaught,          \* an exception escaped an effect (the tree is unmounted)
  lastOp,            \* the operation that completed last, when a claim is about it
  completed,         \* per tenant, the summaries of its completed scans, newest first
  \* the collector run on its own (SpecCollect)
  graphResult,       \* the bag fetchMicrosoftGraphData resolved with, or JsNull
  collectedScan,     \* the ScanData generated from graphResult, or JsNull
  collectInput,      \* what the requests of that run answered
  \* an issue set scored on its own (SpecScore)
  scoredIssues,      \* a sequence of issues
  \* two tabs of one tenant on one local storage (SpecTabs)
  tabs,              \* per tab, the ScanProvider state of that tab
  tabWrites,         \* the history writes so far, oldest first
  \* the joined batch of one startScan (SpecBatch)
  batch,             \* JsNull, or the calls of the Promise.all in flight
  \* AuthProvider with its token refresh, on a clock (SpecRefresh)
  session,           \* state, stored tokens, timers and calls in flight
  \* the issues of a stored scan, filed by category (SpecCategories)
  filed              \* a sequence of indices into IssueSamples

sideVars == << tabs, tabWrites, batch, session, filed >>

vars == << isAuthenticated, accessToken, tenantId, pendingCode, isScanning, isFixing,
           currentScan, scanHistory, latestScan, scanJob, fixJobs, authKeys,
           historyKeys, scanKeys, now, uncaught, lastOp, completed,
           graphResult, collectedScan, collectInput, scoredIssues, sideVars >>

authVars == << isAuthenticated, accessToken, tenantId, pendingCode, authKeys >>
collectVars == << graphResult, collectedScan, collectInput >>

Tenants == {"A", "B"}

Tabs == {"tab1", "tab2"}

\* AuthProvider before anyone signed in, nothing in storage.  A token is a
\* positive number and 0 stands for null (state) or a missing key (storage);
\* times are minutes.
FreshSession ==
  [ isAuthenticated |-> FALSE,   \* useState isAuthenticated
    accessToken |-> 0,           \* useState accessToken
    storedToken |-> 0,           \* localStorage accessToken (and refreshToken)
    expiresAt |-> 0,             \* localStorage expiresAt
    tenantId |-> "null",         \* useState tenantId
    storedTenant |-> "null",     \* localStorage tenantId ("null": no such key)
    timers |-> {},               \* pending setTimeout timers of the refresh effect
    refreshes |-> {},            \* refreshAccessToken calls in flight
    callback |-> FALSE,          \* handleAuthCallback is in flight
    clock |-> 0,                 \* Date.now()
    issued |-> 0 ]               \* tokens issued by the token endpoint so far

\* a tab that has not mounted its ScanProvider
UnmountedTab == [mounted |-> FALSE, scanHistory |-> <<>>, isScanning |-> FALSE,
                 scanJob |-> JsNull]

\* JSON.stringify / JSON.parse: localStorage holds text
Stringify(value) == [json |-> value]
Parse(text) == text.json

\* ------------------------------------------------------------------------
\* Reading scans
\* ------------------------------------------------------------------------
Thrown == [kind |-> "throw"]
Returned(value) == [kind |-> "ok", value |-> value]

CountFixed(issues) ==
  Cardinality({i \in 1..Len(issues) : Has(issues[i], "status") /\ issues[i].status = "Fixed"})

\* String.prototype.toLowerCase on the affectedObject types generateScan uses
ToLowerCase(str) ==
  CASE str = "User" -> "user"
    [] str = "Mailbox" -> "mailbox"
    [] str = "Policy" -> "policy"
    [] OTHER -> str

\* new Date(timestamp).toLocaleString()
ToLocaleString(timestamp) == [locale |-> timestamp]

\* The issue objects getScanById returns (issues.map)
ViewIssue(issue) ==
  [ id |-> issue.id,
    title |-> IF Has(issue, "type") THEN issue.type ELSE "undefined",
    severity |-> issue.severity,
    status |-> IF Has(issue, "status") THEN issue.status ELSE "Open",
    canAutoFix |-> Has(issue, "type")
                   /\ issue.type \in {"MFA Disabled", "Inactive Account",
                                      "Weak Spam Filter", "MFA Not Configured"},
    category |-> ToLowerCase(issue.affectedObject.type),
    affectedItems |-> <<issue.affectedObject.name>>
                      \o (IF Has(issue, "affectedItems") THEN issue.affectedItems ELSE <<>>),
    isRealData |-> issue.isRealData ]

\* getScanById, branch "current scan in state"
ViewOfCurrentScan(scan) ==
  [ id |-> scan.summary.id,
    date |-> ToLocaleString(scan.summary.timestamp),
    securityScore |-> scan.summary.overallRiskScore,
    highRiskIssues |-> scan.summary.issueCountsBySeverity.High,
    mediumRiskIssues |-> scan.summary.issueCountsBySeverity.Medium,
    lowRiskIssues |-> scan.summary.issueCountsBySeverity.Low,
    issuesFixed |-> CountFixed(scan.issues),
    usesRealData |-> scan.usesRealData,
    apiErrors |-> scan.apiErrors,
    issues |-> MapSeq(scan.issues, ViewIssue) ]

\* getScanById, branch "local storage": reading a property of undefined throws
ViewOfSavedScan(parsedScan) ==
  IF \/ ~Has(parsedScan.summary, "issueCountsBySeverity")
     \/ \E i \in 1..Len(parsedScan.issues) :
          ~Has(parsedScan.issues[i], "affectedObject")
  THEN Thrown
  ELSE Returned(
    [ id |-> parsedScan.summary.id,
      date |-> ToLocaleString(parsedScan.summary.timestamp),
      securityScore |-> parsedScan.summary.overallRiskScore,
      highRiskIssues |-> parsedScan.summary.issueCountsBySeverity.High,
      mediumRiskIssues |-> parsedScan.summary.issueCountsBySeverity.Medium,
      lowRiskIssues |-> parsedScan.summary.issueCountsBySeverity.Low,
      issuesFixed |-> CountFixed(parsedScan.issues),
      usesRealData |-> IF Has(parsedScan, "usesRealData") THEN parsedScan.usesRealData
                       ELSE FALSE,
      apiErrors |-> IF Has(parsedScan, "apiErrors") THEN parsedScan.apiErrors ELSE <<>>,
      issues |-> MapSeq(parsedScan.issues, ViewIssue) ])

\* getScanById for an id other than a resolvable "latest"
GetScanByExactId_NoMissingCheck(scanId, tenant, current, saved) ==
  IF tenant = "null" THEN Returned(JsNull)
  ELSE IF Has(current, "summary") /\ current.summary.id = scanId
  THEN Returned(ViewOfCurrentScan(current))
  ELSE IF scanId \in DOMAIN saved THEN ViewOfSavedScan(Parse(saved[scanId]))
  ELSE Thrown

GetScanByExactId(scanId, tenant, current, saved) ==
  IF tenant = "null" THEN Returned(JsNull)
  ELSE IF Has(current, "summary") /\ current.summary.id = scanId
  THEN Returned(ViewOfCurrentScan(current))
  ELSE IF scanId \in DOMAIN saved THEN ViewOfSavedScan(Parse(saved[scanId]))
  ELSE Returned(JsNull)

\* getScanById(scanId) as a function of the state it reads
GetScanByIdIn(scanId, tenant, latest, current, saved) ==
  IF tenant = "null" THEN Returned(JsNull)
  ELSE IF scanId = "latest" /\ Has(latest, "id")
  THEN GetScanByExactId(latest.id, tenant, current, saved)
  ELSE GetScanByExactId(scanId, tenant, current, saved)

GetScanById(scanId) ==
  GetScanByIdIn(scanId, tenantId, latestScan, currentScan, scanKeys)

\* convertToLatestScanData(summary), reading the snapshots in `saved`
ConvertToLatestScanData(summary, saved) ==
  LET parsedData == IF summary.id \in DOMAIN saved THEN Parse(saved[summary.id])
                    ELSE JsNull
      issues == IF Has(parsedData, "issues") THEN parsedData.issues ELSE <<>>
      high == CountSeverity(issues, "High")
      medium == CountSeverity(issues, "Medium")
      low == CountSeverity(issues, "Low")
  IN IF \E i \in 1..Len(issues) : ~Has(issues[i], "affectedObject")
     THEN Thrown     \* issue.affectedObject.type of undefined
     ELSE Returned(
       [ id |-> summary.id,
         date |-> summary.timestamp,
         securityScore |->
           IF high > 0 \/ medium > 0 \/ low > 0
           THEN Max2(0, Min2(MaxScore, MaxScore - (high * HighWeight
                                + medium * MediumWeight + low * LowWeight)))
           ELSE summary.overallRiskScore,
         highRiskIssues |-> high,
         mediumRiskIssues |-> medium,
         lowRiskIssues |-> low,
         issuesFixed |-> CountFixed(issues),
         issues |-> issues,
         usesRealData |-> IF Has(parsedData, "usesRealData")
                          THEN parsedData.usesRealData ELSE FALSE ])

\* ------------------------------------------------------------------------
\* Inputs of the scan provider's state machine
\* ------------------------------------------------------------------------
MaxFixJobs == 1     \* fixIssue calls waiting for their timer at the same time

User(name) == [userPrincipalName |-> name]

CleanTenant ==
  [ tenantName |-> "contoso.com", riskyUsers |-> <<>>, mfaStatus |-> <<>>,
    inactiveUsers |-> <<>>, emailForwarding |-> <<>>, guestUsers |-> <<>>,
    otherRows |-> <<>> ]

RiskyTenant ==
  [ tenantName |-> "contoso.com",
    riskyUsers |-> <<User("ann@contoso.com"), [id |-> "u2"]>>,
    mfaStatus |-> << [userPrincipalName |-> "ann@contoso.com", isMfaEnabled |-> TRUE],
                     [userPrincipalName |-> "bob@contoso.com", isMfaEnabled |-> FALSE] >>,
    inactiveUsers |-> <<>>,
    emailForwarding |-> << [forwardTo |-> <<"eve", "evil.example">>, mailbox |-> "bob"],
                           [forwardTo |-> <<"ann", "contoso.com">>, mailbox |-> "ann"] >>,
    guestUsers |-> <<User("guest#EXT#@contoso.com")>>,
    otherRows |-> <<"row">> ]

FlaggedTenant ==
  [CleanTenant EXCEPT !.riskyUsers = <<User("ann@contoso.com")>>]

\* What the Graph API answers to a scan of Spec, by the tenant of the access
\* token the scan was started with: tenant A has a risky user and no access to
\* the DLP policies, tenant B has nothing to report
ScanInputs ==
  { [tenant |-> "A", failed |-> {<<22, 1>>}, nullBody |-> {}, data |-> FlaggedTenant],
    [tenant |-> "B", failed |-> {}, nullBody |-> {}, data |-> CleanTenant] }

\* ------------------------------------------------------------------------
\* Effects of ScanProvider
\* ------------------------------------------------------------------------
\* useEffect [tenantId]: load the history of the tenant from local storage.
\* Yields the scanHistory, latestScan and uncaught it leaves behind.
LoadHistoryEffect(tenant, history, latest, savedHistory, savedScans) ==
  IF tenant # "null" /\ tenant \in DOMAIN savedHistory
  THEN LET loaded == Parse(savedHistory[tenant])
           converted == ConvertToLatestScanData(loaded[1], savedScans)
       IN IF Len(loaded) = 0
          THEN [scanHistory |-> loaded, latestScan |-> latest, uncaught |-> FALSE]
          ELSE IF converted.kind = "throw"
          THEN [scanHistory |-> loaded, latestScan |-> latest, uncaught |-> TRUE]
          ELSE [scanHistory |-> loaded, latestScan |-> converted.value,
                uncaught |-> FALSE]
  ELSE [scanHistory |-> history, latestScan |-> latest, uncaught |-> FALSE]

\* ------------------------------------------------------------------------
\* Initial state
\* ------------------------------------------------------------------------
NoOp == [op |-> "none"]
OtherOp == [op |-> "other"]
NotFoundOp == [op |-> "notFound"]

Init ==
  /\ isAuthenticated = FALSE
  /\ accessToken = "null"
  /\ tenantId = "null"
  /\ pendingCode = "null"
  /\ isScanning = FALSE
  /\ isFixing = "null"
  /\ currentScan = JsNull
  /\ scanHistory = <<>>
  /\ latestScan = JsNull
  /\ scanJob = JsNull
  /\ fixJobs = {}
  /\ authKeys = "null"
  /\ historyKeys = <<>>
  /\ scanKeys = <<>>
  /\ now = 0
  /\ uncaught = FALSE
  /\ lastOp = NoOp
  /\ completed = [t \in Tenants |-> <<>>]
  /\ graphResult = JsNull
  /\ collectedScan = JsNull
  /\ collectInput = [failed |-> {}, nullBody |-> {}, data |-> JsNull]
  /\ scoredIssues = <<>>
  /\ tabs = [t \in Tabs |-> UnmountedTab]
  /\ tabWrites = <<>>
  /\ batch = JsNull
  /\ session = FreshSession
  /\ filed = <<>>

\* ------------------------------------------------------------------------
\* AuthProvider
\* ------------------------------------------------------------------------
\* The page is loaded (first visit, reload, or the redirect back from the
\* login page with ?code=...).  All React state starts afresh and pending
\* promises and timers of the previous page are gone.  The mount effect
\* restores a stored session and starts handleAuthCallback for the code;
\* ScanProvider's [tenantId] effect then loads the tenant's history.
PageLoad(code) ==
  LET restored == authKeys
      loaded == LoadHistoryEffect(restored, <<>>, JsNull, historyKeys, scanKeys)
  IN /\ isAuthenticated' = (restored # "null")
     /\ accessToken' = IF restored # "null" THEN "token" ELSE "null"
     /\ tenantId' = restored
     /\ pendingCode' = code
     /\ isScanning' = FALSE
     /\ isFixing' = "null"
     /\ currentScan' = JsNull
     /\ scanHistory' = loaded.scanHistory
     /\ latestScan' = loaded.latestScan
     /\ uncaught' = loaded.uncaught
     /\ scanJob' = JsNull
     /\ fixJobs' = {}
     /\ lastOp' = OtherOp
     /\ UNCHANGED << authKeys, historyKeys, scanKeys, now, completed, collectVars,
                     scoredIssues, sideVars >>

\* handleAuthCallback resolves: the tokens of the code's tenant are stored and
\* set; ScanProvider's [tenantId] effect runs when tenantId changed.
AuthCallbackDone ==
  /\ ~uncaught
  /\ pendingCode # "null"
  /\ LET loaded == IF pendingCode # tenantId
                   THEN LoadHistoryEffect(pendingCode, scanHistory, latestScan,
                                          historyKeys, scanKeys)
                   ELSE [scanHistory |-> scanHistory, latestScan |-> latestScan,
                         uncaught |-> FALSE]
     IN /\ authKeys' = pendingCode
        /\ accessToken' = "token"
        /\ tenantId' = pendingCode
        /\ isAuthenticated' = TRUE
        /\ pendingCode' = "null"
        /\ scanHistory' = loaded.scanHistory
        /\ latestScan' = loaded.latestScan
        /\ uncaught' = loaded.uncaught
  /\ lastOp' = OtherOp
  /\ UNCHANGED << isScanning, isFixing, currentScan, scanJob, fixJobs, historyKeys,
                  scanKeys, now, completed, collectVars, scoredIssues, sideVars >>

\* logout
Logout ==
  /\ ~uncaught
  /\ isAuthenticated
  /\ authKeys' = "null"
  /\ accessToken' = "null"
  /\ tenantId' = "null"
  /\ isAuthenticated' = FALSE
  /\ lastOp' = OtherOp
  /\ UNCHANGED << pendingCode, isScanning, isFixing, currentScan, scanHistory,
                  latestScan, scanJob, fixJobs, historyKeys, scanKeys, now, uncaught,
                  completed, collectVars, scoredIssues, sideVars >>

\* ------------------------------------------------------------------------
\* startScan
\* ------------------------------------------------------------------------
\* Dashboard.handleStartScan -> startNewScan -> startScan, up to the await of
\* fetchMicrosoftGraphData.  The scan keeps the accessToken, tenantId and
\* scanHistory of the render it was started from.
StartScanBegin_NoGuard ==
  /\ ~uncaught
  /\ now < MaxScans
  /\ IF accessToken = "null" \/ tenantId = "null"
     THEN /\ lastOp' = OtherOp
          /\ UNCHANGED << isScanning, scanJob >>
     ELSE /\ isScanning' = TRUE
          /\ scanJob' = [tenantId |-> tenantId, scanHistory |-> scanHistory]
          /\ lastOp' = OtherOp
  /\ UNCHANGED << authVars, isFixing, currentScan, scanHistory, latestScan, fixJobs,
                  historyKeys, scanKeys, now, uncaught, completed, collectVars,
                  scoredIssues, sideVars >>

StartScanBegin ==
  /\ ~uncaught
  /\ ~isScanning                       \* Dashboard: "A scan is already in progress"
  /\ now < MaxScans
  /\ IF accessToken = "null" \/ tenantId = "null"
     THEN /\ lastOp' = OtherOp
          /\ UNCHANGED << isScanning, scanJob >>
     ELSE /\ isScanning' = TRUE
          /\ scanJob' = [tenantId |-> tenantId, scanHistory |-> scanHistory]
          /\ lastOp' = OtherOp
  /\ UNCHANGED << authVars, isFixing, currentScan, scanHistory, latestScan, fixJobs,
                  historyKeys, scanKeys, now, uncaught, completed, collectVars,
                  scoredIssues, sideVars >>

\* The batch has settled: generateScan, the state updates and the two writes
StartScanFinish(input) ==
  /\ ~uncaught
  /\ Has(scanJob, "tenantId")
  /\ input.tenant = scanJob.tenantId
  /\ LET result == FetchMicrosoftGraphData(input.failed, input.nullBody, input.data)
         scanData == ScanOfGraphResult(scanJob.tenantId, result, now + 1)
         updatedHistory == Slice0(<<scanData.summary>> \o scanJob.scanHistory,
                                  HistoryLimit)
         savedScans == (scanData.summary.id :> Stringify(scanData)) @@ scanKeys
         converted == ConvertToLatestScanData(scanData.summary, savedScans)
     IN /\ now' = now + 1
        /\ currentScan' = scanData
        /\ scanHistory' = updatedHistory
        /\ historyKeys' = (scanJob.tenantId :> Stringify(updatedHistory)) @@ historyKeys
        /\ scanKeys' = savedScans
        /\ IF converted.kind = "throw"
           THEN /\ UNCHANGED latestScan       \* caught: "Scan failed"
                /\ lastOp' = OtherOp
           ELSE /\ latestScan' = [converted.value EXCEPT
                                    !.usesRealData = scanData.usesRealData,
                                    !.issues = scanData.issues]
                /\ lastOp' = [op |-> "startScan", outcome |-> "done",
                              scanId |-> scanData.summary.id,
                              tenantId |-> scanJob.tenantId]
        /\ completed' = [completed EXCEPT ![scanJob.tenantId] =
                                              <<scanData.summary>> \o @]
  /\ isScanning' = FALSE
  /\ scanJob' = JsNull
  /\ UNCHANGED << authVars, isFixing, fixJobs, uncaught, collectVars,
                  scoredIssues, sideVars >>

\* startScan is cut off between its two storage writes: the history write has
\* happened, the snapshot write has not, and the tab goes away (closed or
\* killed).  Nothing in memory survives; the application is loaded again with
\* the session and the history found in storage.
StartScanCrash(input) ==
  /\ ~uncaught
  /\ Has(scanJob, "tenantId")
  /\ input.tenant = scanJob.tenantId
  /\ LET result == FetchMicrosoftGraphData(input.failed, input.nullBody, input.data)
         scanData == ScanOfGraphResult(scanJob.tenantId, result, now + 1)
         updatedHistory == Slice0(<<scanData.summary>> \o scanJob.scanHistory,
                                  HistoryLimit)
         savedHistory == (scanJob.tenantId :> Stringify(updatedHistory))
                           @@ historyKeys
         restored == authKeys
         loaded == LoadHistoryEffect(restored, <<>>, JsNull, savedHistory, scanKeys)
     IN /\ now' = now + 1
        /\ historyKeys' = savedHistory
        /\ completed' = [completed EXCEPT ![scanJob.tenantId] =
                                              <<scanData.summary>> \o @]
        /\ isAuthenticated' = (restored # "null")
        /\ accessToken' = IF restored # "null" THEN "token" ELSE "null"
        /\ tenantId' = restored
        /\ scanHistory' = loaded.scanHistory
        /\ latestScan' = loaded.latestScan
        /\ uncaught' = loaded.uncaught
        /\ lastOp' = [op |-> "startScanCrash"]
  /\ pendingCode' = "null"
  /\ isScanning' = FALSE
  /\ isFixing' = "null"
  /\ currentScan' = JsNull
  /\ scanJob' = JsNull
  /\ fixJobs' = {}
  /\ UNCHANGED << authKeys, scanKeys, collectVars, scoredIssues, sideVars >>

\* ------------------------------------------------------------------------
\* fixIssue
\* ------------------------------------------------------------------------
IssueIdsOf(scan) == {scan.issues[i].id : i \in 1..Len(scan.issues)}

\* fixIssue(scanId, issueId) up to the await of the 2 s timer
FixIssueBegin_NoIssueCheck(scanId, issueId) ==
  /\ ~uncaught
  /\ Cardinality(fixJobs) < MaxFixJobs
  /\ LET found == GetScanById(scanId)
     IN IF found.kind = "throw"
        THEN /\ isFixing' = "null"                    \* catch: "Failed to fix issue"
             /\ lastOp' = OtherOp
             /\ UNCHANGED fixJobs
        ELSE IF ~Has(found.value, "issues")
        THEN /\ isFixing' = "null"                    \* "Scan data not found"
             /\ lastOp' = NotFoundOp
             /\ UNCHANGED fixJobs
        ELSE /\ isFixing' = issueId
             /\ fixJobs' = fixJobs \cup
                   {[scanId |-> scanId, issueId |-> issueId, scan |-> found.value]}
             /\ lastOp' = OtherOp
  /\ UNCHANGED << authVars, isScanning, currentScan, scanHistory, latestScan, scanJob,
                  historyKeys, scanKeys, now, uncaught, completed, collectVars,
                  scoredIssues, sideVars >>

FixIssueBegin(scanId, issueId) ==
  /\ ~uncaught
  /\ Cardinality(fixJobs) < MaxFixJobs
  /\ LET found == GetScanById(scanId)
     IN IF found.kind = "throw"
        THEN /\ isFixing' = "null"                    \* catch: "Failed to fix issue"
             /\ lastOp' = OtherOp
             /\ UNCHANGED fixJobs
        ELSE IF ~Has(found.value, "issues")
        THEN /\ isFixing' = "null"                    \* "Scan data not found"
             /\ lastOp' = NotFoundOp
             /\ UNCHANGED fixJobs
        ELSE IF issueId \notin IssueIdsOf(found.value)
        THEN /\ isFixing' = "null"                    \* "Issue not found"
             /\ lastOp' = NotFoundOp
             /\ UNCHANGED fixJobs
        ELSE /\ isFixing' = issueId
             /\ fixJobs' = fixJobs \cup
                   {[scanId |-> scanId, issueId |-> issueId, scan |-> found.value]}
             /\ lastOp' = OtherOp
  /\ UNCHANGED << authVars, isScanning, currentScan, scanHistory, latestScan, scanJob,
                  historyKeys, scanKeys, now, uncaught, completed, collectVars,
                  scoredIssues, sideVars >>

\* The snapshot fixIssue writes for the scan it read before the timer
FixedSnapshot(scan, issueId) ==
  LET updatedIssues == MapSeq(scan.issues,
                         LAMBDA issue : IF issue.id = issueId
                                        THEN [issue EXCEPT !.status = "Fixed"]
                                        ELSE issue)
  IN [ summary |-> [ id |-> scan.id,
                     date |-> scan.date,
                     securityScore |-> scan.securityScore,
                     highRiskIssues |-> scan.highRiskIssues,
                     mediumRiskIssues |-> scan.mediumRiskIssues,
                     lowRiskIssues |-> scan.lowRiskIssues,
                     issuesFixed |-> scan.issuesFixed,
                     usesRealData |-> scan.usesRealData,
                     apiErrors |-> scan.apiErrors,
                     issues |-> scan.issues,
                     timestamp |-> scan.date,
                     overallRiskScore |-> scan.securityScore ],
       issues |-> updatedIssues ]

\* The timer fired: the snapshot is written under scan_<scanId>
FixIssueFinish(job) ==
  /\ ~uncaught
  /\ job \in fixJobs
  /\ scanKeys' = (job.scanId :> Stringify(FixedSnapshot(job.scan, job.issueId)))
                  @@ scanKeys
  /\ isFixing' = "null"
  /\ fixJobs' = fixJobs \ {job}
  /\ lastOp' = [op |-> "fixIssue", outcome |-> "success",
                scanId |-> job.scanId, issueId |-> job.issueId,
                fixedBefore |-> job.scan.issuesFixed,
                wasOpen |-> \E i \in 1..Len(job.scan.issues) :
                              /\ job.scan.issues[i].id = job.issueId
                              /\ job.scan.issues[i].status = "Open"]
  /\ UNCHANGED << authVars, isScanning, currentScan, scanHistory, latestScan, scanJob,
                  historyKeys, now, uncaught, completed, collectVars, scoredIssues, sideVars >>

\* ------------------------------------------------------------------------
\* clearScanHistory
\* ------------------------------------------------------------------------
RemoveKeys(store, keys) == [k \in DOMAIN store \ keys |-> store[k]]

ClearScanHistory ==
  /\ ~uncaught
  /\ tenantId # "null"
  /\ scanHistory' = <<>>
  /\ latestScan' = JsNull
  /\ historyKeys' = RemoveKeys(historyKeys, {tenantId})
  /\ scanKeys' = RemoveKeys(scanKeys, DOMAIN scanKeys)  \* every key "scan_..."
  /\ completed' = [completed EXCEPT ![tenantId] = <<>>]
  /\ lastOp' = [op |-> "clearScanHistory"]
  /\ UNCHANGED << authVars, isScanning, isFixing, currentScan, scanJob, fixJobs, now,
                  uncaught, collectVars, scoredIssues, sideVars >>

\* ------------------------------------------------------------------------
\* exportScanResults, called by ScanResults.handleExport
\* ------------------------------------------------------------------------
ExportFormats == {"pdf", "csv"}

ExportScanResults(scanId, format) ==
  /\ ~uncaught
  /\ LET scan == GetScanById(scanId)
     IN lastOp' =
          IF scan.kind = "throw" THEN OtherOp       \* caught by handleExport
          ELSE IF ~Has(scan.value, "issues")
          THEN NotFoundOp                           \* "Scan data not found"
          ELSE [op |-> "export"]                    \* the file is downloaded
  /\ UNCHANGED << authVars, isScanning, isFixing, currentScan, scanHistory, latestScan,
                  scanJob, fixJobs, historyKeys, scanKeys, now, uncaught, completed,
                  collectVars, scoredIssues, sideVars >>

\* ------------------------------------------------------------------------
\* The application: one browser tab and its local storage
\* ------------------------------------------------------------------------
KnownScanIds == {ScanIdAt(n) : n \in 1..MaxScans} \cup {"scan_unknown"}

FixableIssueIds(scanId) ==
  LET found == GetScanById(scanId)
  IN IF found.kind = "ok" /\ Has(found.value, "issues")
     THEN IssueIdsOf(found.value) \cup {"issue_unknown"}
     ELSE {"issue_unknown"}

Next ==
  \/ \E code \in Tenants \cup {"null"} : PageLoad(code)
  \/ AuthCallbackDone
  \/ Logout
  \/ StartScanBegin
  \/ \E input \in ScanInputs : StartScanFinish(input)
  \/ \E scanId \in KnownScanIds : \E issueId \in FixableIssueIds(scanId) :
       FixIssueBegin(scanId, issueId)
  \/ \E job \in fixJobs : FixIssueFinish(job)
  \/ ClearScanHistory

Spec == Init /\ [][Next]_vars

\* ------------------------------------------------------------------------
\* The application used by one tenant, with exports and with a scan that is
\* cut off between its two writes
\* ------------------------------------------------------------------------
SoleTenant == "A"

NextTenant ==
  \/ \E code \in {"null", SoleTenant} : PageLoad(code)
  \/ AuthCallbackDone
  \/ Logout
  \/ StartScanBegin
  \/ \E input \in ScanInputs : StartScanFinish(input)
  \/ \E input \in ScanInputs : StartScanCrash(input)
  \/ \E scanId \in KnownScanIds : \E issueId \in FixableIssueIds(scanId) :
       FixIssueBegin(scanId, issueId)
  \/ \E job \in fixJobs : FixIssueFinish(job)
  \/ ClearScanHistory
  \/ \E scanId \in KnownScanIds : \E format \in ExportFormats :
       ExportScanResults(scanId, format)

SpecTenant == Init /\ [][NextTenant]_vars

\* ------------------------------------------------------------------------
\* Dashboard.handleStartScan and the ways startScan ends without a scan
\* ------------------------------------------------------------------------
\* What handleStartScan does with the value startNewScan resolved with: it
\* announces "Scan started successfully" and navigates to
\* `/scan-results/${scanId}` without looking at the value
HandlerOutcome(returned) ==
  [ op |-> "handleStartScan", returned |-> returned,
    announced |-> TRUE, navigatedTo |-> "/scan-results/" \o returned ]

\* handleStartScan -> startScan up to its first await: without an access
\* token or tenant id startScan returns null at once and the handler goes on
HandleStartScan ==
  /\ ~uncaught
  /\ ~isScanning                       \* Dashboard: "A scan is already in progress"
  /\ now < MaxScans
  /\ IF accessToken = "null" \/ tenantId = "null"
     THEN /\ lastOp' = HandlerOutcome("null")
          /\ UNCHANGED << isScanning, scanJob >>
     ELSE /\ isScanning' = TRUE
          /\ scanJob' = [tenantId |-> tenantId, scanHistory |-> scanHistory]
          /\ lastOp' = OtherOp
  /\ UNCHANGED << authVars, isFixing, currentScan, scanHistory, latestScan, fixJobs,
                  historyKeys, scanKeys, now, uncaught, completed, collectVars,
                  scoredIssues, sideVars >>

\* Where the try block of startScan can throw: generateScan rejects (a
\* TypeError on a row that is null), or localStorage.setItem throws
\* QuotaExceededError on the history key or on the snapshot key
FailureStages == {"generateScan", "saveHistory", "saveScan"}

\* The batch has settled and startScan throws at `stage`: the catch block
\* resets isScanning and returns null, and the handler goes on
StartScanFails(input, stage) ==
  /\ ~uncaught
  /\ Has(scanJob, "tenantId")
  /\ input.tenant = scanJob.tenantId
  /\ LET result == FetchMicrosoftGraphData(input.failed, input.nullBody, input.data)
         scanData == ScanOfGraphResult(scanJob.tenantId, result, now + 1)
         updatedHistory == Slice0(<<scanData.summary>> \o scanJob.scanHistory,
                                  HistoryLimit)
     IN IF stage = "generateScan"
        THEN UNCHANGED << now, currentScan, scanHistory, historyKeys >>
        ELSE /\ now' = now + 1
             /\ currentScan' = scanData          \* setCurrentScan, setScanHistory
             /\ scanHistory' = updatedHistory
             /\ IF stage = "saveScan"
                THEN historyKeys' = (scanJob.tenantId :> Stringify(updatedHistory))
                                      @@ historyKeys
                ELSE UNCHANGED historyKeys
  /\ isScanning' = FALSE
  /\ scanJob' = JsNull
  /\ lastOp' = HandlerOutcome("null")
  /\ UNCHANGED << authVars, isFixing, latestScan, fixJobs, scanKeys, uncaught,
                  completed, collectVars, scoredIssues, sideVars >>

NextDashboard ==
  \/ \E code \in {"null", SoleTenant} : PageLoad(code)
  \/ AuthCallbackDone
  \/ Logout
  \/ HandleStartScan
  \/ \E input \in ScanInputs : StartScanFinish(input)
  \/ \E input \in ScanInputs : \E stage \in FailureStages : StartScanFails(input, stage)

SpecDashboard == Init /\ [][NextDashboard]_vars

\* ------------------------------------------------------------------------
\* The collector and generateScan on their own, for every choice of up to
\* MaxFailed requests that fail or answer with a null body
\* ------------------------------------------------------------------------
TenantProfiles == {CleanTenant, RiskyTenant}

\* callGraphApi: one request of the batch does not answer 2xx (or fetch rejects)
RequestFails(request) ==
  /\ graphResult = JsNull
  /\ request \notin collectInput.failed \cup collectInput.nullBody
  /\ Cardinality(collectInput.failed \cup collectInput.nullBody) < MaxFailed
  /\ collectInput' = [collectInput EXCEPT !.failed = @ \cup {request}]
  /\ UNCHANGED << authVars, isScanning, isFixing, currentScan, scanHistory, latestScan,
                  scanJob, fixJobs, historyKeys, scanKeys, now, uncaught, lastOp,
                  completed, graphResult, collectedScan, scoredIssues, sideVars >>

\* callGraphApi: one request of the batch answers 2xx with the JSON body null
RequestAnswersNull(request) ==
  /\ graphResult = JsNull
  /\ request \notin collectInput.failed \cup collectInput.nullBody
  /\ Cardinality(collectInput.failed \cup collectInput.nullBody) < MaxFailed
  /\ collectInput' = [collectInput EXCEPT !.nullBody = @ \cup {request}]
  /\ UNCHANGED << authVars, isScanning, isFixing, currentScan, scanHistory, latestScan,
                  scanJob, fixJobs, historyKeys, scanKeys, now, uncaught, lastOp,
                  completed, graphResult, collectedScan, scoredIssues, sideVars >>

\* fetchMicrosoftGraphData(token) resolves; every other request answered 2xx
\* with the rows of `data`
CollectorRun(data) ==
  /\ graphResult = JsNull
  /\ graphResult' = FetchMicrosoftGraphData(collectInput.failed, collectInput.nullBody,
                                            data)
  /\ collectInput' = [collectInput EXCEPT !.data = data]
  /\ UNCHANGED << authVars, isScanning, isFixing, currentScan, scanHistory, latestScan,
                  scanJob, fixJobs, historyKeys, scanKeys, now, uncaught, lastOp,
                  completed, collectedScan, scoredIssues, sideVars >>

\* startScan's generateScan on that result
CollectorGenerate ==
  /\ graphResult # JsNull
  /\ collectedScan = JsNull
  /\ collectedScan' = ScanOfGraphResult("A", graphResult, 1)
  /\ UNCHANGED << authVars, isScanning, isFixing, currentScan, scanHistory, latestScan,
                  scanJob, fixJobs, historyKeys, scanKeys, now, uncaught, lastOp,
                  completed, graphResult, collectInput, scoredIssues, sideVars >>

NextCollect ==
  \/ \E request \in Requests : RequestFails(request)
  \/ \E request \in Requests : RequestAnswersNull(request)
  \/ \E data \in TenantProfiles : CollectorRun(data)
  \/ CollectorGenerate

SpecCollect == Init /\ [][NextCollect]_vars

\* ------------------------------------------------------------------------
\* Issue sets on their own: any numbers of High, Medium and Low issues,
\* Open or Fixed, up to MaxIssues
\* ------------------------------------------------------------------------
IssueRank(issue) ==
  (CASE issue.severity = "High" -> 0 [] issue.severity = "Medium" -> 2 [] OTHER -> 4)
  + (IF issue.status = "Fixed" THEN 1 ELSE 0)

\* One more issue joins the set (issue sets are kept in one canonical order)
AddIssue(severity, status) ==
  LET issue == [severity |-> severity, status |-> status]
  IN /\ Len(scoredIssues) < MaxIssues
     /\ scoredIssues # <<>> => IssueRank(scoredIssues[Len(scoredIssues)]) <= IssueRank(issue)
     /\ scoredIssues' = Append(scoredIssues, issue)
     /\ UNCHANGED << authVars, isScanning, isFixing, currentScan, scanHistory,
                     latestScan, scanJob, fixJobs, historyKeys, scanKeys, now, uncaught,
                     lastOp, completed, collectVars, sideVars >>

NextScore == \E severity \in Severities : \E status \in {"Open", "Fixed"} :
               AddIssue(severity, status)

SpecScore == Init /\ [][NextScore]_vars

\* ------------------------------------------------------------------------
\* The badge next to the overall score
\* ------------------------------------------------------------------------
GoodThreshold == 80

NeedsImprovementThreshold == 50

\* ScanResults: the badge of calculateSecurityScore()
ResultsPageBadge_Exclusive(score) ==
  IF score > GoodThreshold THEN "Good"
  ELSE IF score > NeedsImprovementThreshold THEN "Needs Improvement"
  ELSE "Critical"

ResultsPageBadge(score) ==
  IF score >= GoodThreshold THEN "Good"
  ELSE IF score >= NeedsImprovementThreshold THEN "Needs Improvement"
  ELSE "Critical"

\* exportToPDF: the badge of scan.securityScore
PdfBadge(score) ==
  IF score >= GoodThreshold THEN "Good"
  ELSE IF score >= NeedsImprovementThreshold THEN "Needs Improvement"
  ELSE "Critical"

\* ------------------------------------------------------------------------
\* Two browser tabs of one tenant on the same local storage
\* ------------------------------------------------------------------------
MaxTabScans == 3

TabTenant == "A"

\* the scans of both tabs that are started and not finished
TabScansInFlight == Cardinality({t \in Tabs : tabs[t].scanJob # JsNull})

\* the tab is opened or reloaded: ScanProvider mounts and its [tenantId] effect
\* loads the stored history
TabMount(t) ==
  /\ tabs' = [tabs EXCEPT ![t] =
               [mounted |-> TRUE,
                scanHistory |-> IF TabTenant \in DOMAIN historyKeys
                                THEN Parse(historyKeys[TabTenant]) ELSE <<>>,
                isScanning |-> FALSE,
                scanJob |-> JsNull]]
  /\ UNCHANGED << authVars, isScanning, isFixing, currentScan, scanHistory, latestScan,
                  scanJob, fixJobs, historyKeys, scanKeys, now, uncaught, lastOp,
                  completed, collectVars, scoredIssues, tabWrites, batch, session, filed >>

\* startScan is called in tab t: the call keeps the scanHistory of the render
\* it was made in
TabStartScan(t) ==
  /\ tabs[t].mounted
  /\ ~tabs[t].isScanning
  /\ now + TabScansInFlight < MaxTabScans
  /\ tabs' = [tabs EXCEPT ![t].isScanning = TRUE,
                          ![t].scanJob = [scanHistory |-> tabs[t].scanHistory]]
  /\ UNCHANGED << authVars, isScanning, isFixing, currentScan, scanHistory, latestScan,
                  scanJob, fixJobs, historyKeys, scanKeys, now, uncaught, lastOp,
                  completed, collectVars, scoredIssues, tabWrites, batch, session, filed >>

SummaryIds(history) == {history[n].id : n \in 1..Len(history)}

\* the collection of tab t's startScan resolved: the scan is generated and
\* the history and the snapshot are written
TabFinishScan_ReadsStorage(t, data) ==
  /\ tabs[t].scanJob # JsNull
  /\ LET result == FetchMicrosoftGraphData({}, {}, data)
         scanData == ScanOfGraphResult(TabTenant, result, now + 1)
         stored == IF TabTenant \in DOMAIN historyKeys
                   THEN Parse(historyKeys[TabTenant]) ELSE <<>>
         updatedHistory == Slice0(<<scanData.summary>> \o stored, HistoryLimit)
     IN /\ now' = now + 1
        /\ historyKeys' = (TabTenant :> Stringify(updatedHistory)) @@ historyKeys
        /\ scanKeys' = (scanData.summary.id :> Stringify(scanData)) @@ scanKeys
        /\ tabs' = [tabs EXCEPT ![t].scanHistory = updatedHistory,
                                ![t].isScanning = FALSE,
                                ![t].scanJob = JsNull]
        /\ tabWrites' = Append(tabWrites,
                               [tab |-> t, id |-> scanData.summary.id,
                                seen |-> SummaryIds(tabs[t].scanJob.scanHistory)])
  /\ UNCHANGED << authVars, isScanning, isFixing, currentScan, scanHistory, latestScan,
                  scanJob, fixJobs, uncaught, lastOp, completed, collectVars,
                  scoredIssues, batch, session, filed >>

TabFinishScan(t, data) ==
  /\ tabs[t].scanJob # JsNull
  /\ LET result == FetchMicrosoftGraphData({}, {}, data)
         scanData == ScanOfGraphResult(TabTenant, result, now + 1)
         updatedHistory == Slice0(<<scanData.summary>> \o tabs[t].scanJob.scanHistory,
                                  HistoryLimit)
     IN /\ now' = now + 1
        /\ historyKeys' = (TabTenant :> Stringify(updatedHistory)) @@ historyKeys
        /\ scanKeys' = (scanData.summary.id :> Stringify(scanData)) @@ scanKeys
        /\ tabs' = [tabs EXCEPT ![t].scanHistory = updatedHistory,
                                ![t].isScanning = FALSE,
                                ![t].scanJob = JsNull]
        /\ tabWrites' = Append(tabWrites,
                               [tab |-> t, id |-> scanData.summary.id,
                                seen |-> SummaryIds(tabs[t].scanJob.scanHistory)])
  /\ UNCHANGED << authVars, isScanning, isFixing, currentScan, scanHistory, latestScan,
                  scanJob, fixJobs, uncaught, lastOp, completed, collectVars,
                  scoredIssues, batch, session, filed >>

NextTabs ==
  \/ \E t \in Tabs : TabMount(t)
  \/ \E t \in Tabs : TabStartScan(t)
  \/ \E t \in Tabs : \E data \in TenantProfiles : TabFinishScan(t, data)

SpecTabs == Init /\ [][NextTabs]_vars

\* ------------------------------------------------------------------------
\* AuthProvider: the session and its automatic token refresh
\* ------------------------------------------------------------------------
MaxClock == 7

MaxTokens == 3

RefreshBuffer == 5

\* expires_in of a token response, in minutes
ExpiresInChoices == {4, 7}

\* parseJwt(id_token).tid when the ID token cannot be parsed or carries no
\* tid: undefined in the state, the text "undefined" in local storage
NoTenantId == "undefined"

\* what the ID token of a token response yields as tenant id
TidChoices == {SoleTenant, NoTenantId}

appVars == << authVars, isScanning, isFixing, currentScan, scanHistory, latestScan,
              scanJob, fixJobs, historyKeys, scanKeys, now, uncaught, lastOp,
              completed, collectVars, scoredIssues, tabs, tabWrites, batch,
              filed >>

\* refreshAccessToken is called: without a stored refresh token it resolves
\* false at once, otherwise the token request is in flight
StartRefresh(a, origin) ==
  [a EXCEPT !.refreshes = @ \cup {[origin |-> origin,
                                    accessToken |-> a.accessToken,
                                    storedTenantId |-> IF origin = "mount"
                                                       THEN a.storedTenant ELSE "null",
                                    failed |-> (a.storedToken = 0)]}]

\* the refresh effect without its branch for a token about to expire
RunRefreshEffect_NoImmediateRefresh(a) ==
  IF ~a.isAuthenticated \/ a.accessToken = 0 THEN a
  ELSE IF a.expiresAt = 0 THEN a
  ELSE IF (a.expiresAt - a.clock) - RefreshBuffer <= 0
  THEN a
  ELSE [a EXCEPT !.timers = @ \cup {[fireAt |-> a.expiresAt - RefreshBuffer,
                                     accessToken |-> a.accessToken]}]

\* the body of the refresh effect
RunRefreshEffect(a) ==
  IF ~a.isAuthenticated \/ a.accessToken = 0 THEN a
  ELSE IF a.expiresAt = 0 THEN a
  ELSE IF (a.expiresAt - a.clock) - RefreshBuffer <= 0
  THEN StartRefresh(a, "effect")
  ELSE [a EXCEPT !.timers = @ \cup {[fireAt |-> a.expiresAt - RefreshBuffer,
                                     accessToken |-> a.accessToken]}]

\* React renders after a state change: when isAuthenticated or accessToken
\* changed, the cleanup of the previous refresh effect runs (clearTimeout)
\* and the effect runs again
Rerender_NoCleanup(old, new) ==
  IF << new.isAuthenticated, new.accessToken >> # << old.isAuthenticated, old.accessToken >>
  THEN RunRefreshEffect(new)
  ELSE new

Rerender(old, new) ==
  IF << new.isAuthenticated, new.accessToken >> # << old.isAuthenticated, old.accessToken >>
  THEN RunRefreshEffect([new EXCEPT !.timers = {}])
  ELSE new

\* logout(): the stored keys are removed and the state is reset
LoggedOut(a) ==
  [a EXCEPT !.storedToken = 0, !.expiresAt = 0, !.storedTenant = "null",
            !.tenantId = "null",
            !.accessToken = 0, !.isAuthenticated = FALSE]

\* the page is loaded (with or without ?code=): nothing in memory survives,
\* the mount effect restores a stored session that has not expired, or
\* refreshes an expired one, and starts handleAuthCallback for a code
Mount(code) ==
  /\ LET blank == [session EXCEPT !.isAuthenticated = FALSE, !.accessToken = 0,
                                  !.tenantId = "null",
                                  !.timers = {}, !.refreshes = {},
                                  !.callback = code]
     IN session' =
          IF session.storedToken # 0 /\ session.storedTenant # "null"
             /\ session.expiresAt # 0
          THEN IF session.expiresAt > session.clock
               THEN Rerender(blank, [blank EXCEPT !.isAuthenticated = TRUE,
                                                  !.tenantId = session.storedTenant,
                                                  !.accessToken = session.storedToken])
               ELSE StartRefresh(blank, "mount")
          ELSE blank
  /\ UNCHANGED appVars

\* handleAuthCallback resolves with the tokens, or rejects
AuthCallbackResolves(ok, expiresIn, tid) ==
  /\ session.callback
  /\ ok => session.issued < MaxTokens
  /\ session' =
       IF ok
       THEN Rerender(session,
                     [session EXCEPT !.storedToken = session.issued + 1,
                                     !.expiresAt = session.clock + expiresIn,
                                     !.storedTenant = tid,
                                     !.tenantId = tid,
                                     !.accessToken = session.issued + 1,
                                     !.isAuthenticated = TRUE,
                                     !.issued = @ + 1,
                                     !.callback = FALSE])
       ELSE [session EXCEPT !.callback = FALSE]
  /\ UNCHANGED appVars

\* a pending timer of the refresh effect fires, at its time or later
TimerFires(timer) ==
  /\ timer \in session.timers
  /\ timer.fireAt <= session.clock
  /\ session' = StartRefresh([session EXCEPT !.timers = @ \ {timer}], "timer")
  /\ UNCHANGED appVars

\* a refreshAccessToken call resolves: true after storing the new tokens and
\* setting the access token, or false, and then its caller logs out
RefreshResolves(refresh, ok, expiresIn) ==
  /\ refresh \in session.refreshes
  /\ refresh.failed => ~ok
  /\ ok => session.issued < MaxTokens
  /\ LET rest == [session EXCEPT !.refreshes = @ \ {refresh}]
     IN session' =
          IF ok
          THEN Rerender(session,
                 [rest EXCEPT !.storedToken = session.issued + 1,
                              !.expiresAt = session.clock + expiresIn,
                              !.accessToken = session.issued + 1,
                              !.issued = @ + 1,
                              !.tenantId =
                                 IF refresh.origin = "mount"
                                 THEN refresh.storedTenantId ELSE @,
                              !.isAuthenticated =
                                 IF refresh.origin = "mount" THEN TRUE ELSE @])
          ELSE Rerender(session, LoggedOut(rest))
  /\ UNCHANGED appVars

\* the user signs out
UserLogout ==
  /\ session.isAuthenticated
  /\ session' = Rerender(session, LoggedOut(session))
  /\ UNCHANGED appVars

\* a minute passes
Tick ==
  /\ session.clock < MaxClock
  /\ session' = [session EXCEPT !.clock = @ + 1]
  /\ UNCHANGED appVars

NextRefresh ==
  \/ \E code \in BOOLEAN : Mount(code)
  \/ \E ok \in BOOLEAN : \E expiresIn \in ExpiresInChoices : \E tid \in TidChoices :
       AuthCallbackResolves(ok, expiresIn, tid)
  \/ \E timer \in session.timers : TimerFires(timer)
  \/ \E refresh \in session.refreshes : \E ok \in BOOLEAN :
       \E expiresIn \in ExpiresInChoices : RefreshResolves(refresh, ok, expiresIn)
  \/ UserLogout
  \/ Tick

SpecRefresh == Init /\ [][NextRefresh]_vars

\* The same provider in a page whose event loop runs its timers when they
\* are due: no minute passes while a due timer is pending
TickOnTime ==
  /\ \A timer \in session.timers : timer.fireAt > session.clock
  /\ Tick

NextOnTime ==
  \/ \E code \in BOOLEAN : Mount(code)
  \/ \E ok \in BOOLEAN : \E expiresIn \in ExpiresInChoices : \E tid \in TidChoices :
       AuthCallbackResolves(ok, expiresIn, tid)
  \/ \E timer \in session.timers : TimerFires(timer)
  \/ \E refresh \in session.refreshes : \E ok \in BOOLEAN :
       \E expiresIn \in ExpiresInChoices : RefreshResolves(refresh, ok, expiresIn)
  \/ UserLogout
  \/ TickOnTime

SpecRefreshOnTime == Init /\ [][NextOnTime]_vars

\* ------------------------------------------------------------------------
\* convertToLatestScanData: the issues of a scan filed under five categories.
\* A text is the sequence of its characters.
\* ------------------------------------------------------------------------
MaxFiled == 8

UpperCase == <<"A", "B", "C", "D", "E", "F", "G", "H", "I", "J", "K", "L", "M",
               "N", "O", "P", "Q", "R", "S", "T", "U", "V", "W", "X", "Y", "Z">>
LowerCase == <<"a", "b", "c", "d", "e", "f", "g", "h", "i", "j", "k", "l", "m",
               "n", "o", "p", "q", "r", "s", "t", "u", "v", "w", "x", "y", "z">>

\* String.prototype.toLowerCase, letter by letter
LowerOf ==
  [c \in {UpperCase[n] : n \in 1..Len(UpperCase)} |->
     LowerCase[CHOOSE n \in 1..Len(UpperCase) : UpperCase[n] = c]]

LowerChar(c) == IF c \in DOMAIN LowerOf THEN LowerOf[c] ELSE c

LowerText(text) == [i \in 1..Len(text) |-> LowerChar(text[i])]

\* String.prototype.includes
TextIncludes(text, part) ==
  \E k \in 0..(Len(text) - Len(part)) :
    \A i \in 1..Len(part) : text[k + i] = part[i]

\* the keys of categoryMappings in the order of Object.entries
CategoryKeys == <<"securityPosture", "identityAccess", "deviceApp", "dataProtection", "licenseManagement">>

\* categoryMappings[key].types
CategoryTypes ==
  [ securityPosture |->
      << <<"P", "o", "l", "i", "c", "y">>,
         <<"S", "e", "c", "u", "r", "i", "t", "y", "D", "e", "f", "a", "u", "l", "t", "s">>,
         <<"C", "o", "m", "p", "l", "i", "a", "n", "c", "e", "S", "c", "o", "r", "e">>,
         <<"S", "e", "c", "u", "r", "e", "S", "c", "o", "r", "e">>,
         <<"O", "r", "g", "a", "n", "i", "z", "a", "t", "i", "o", "n">> >>,
    identityAccess |->
      << <<"U", "s", "e", "r">>,
         <<"R", "o", "l", "e">>,
         <<"A", "u", "t", "h", "e", "n", "t", "i", "c", "a", "t", "i", "o", "n">>,
         <<"M", "F", "A">>,
         <<"G", "u", "e", "s", "t">>,
         <<"A", "d", "m", "i", "n">>,
         <<"I", "d", "e", "n", "t", "i", "t", "y">> >>,
    deviceApp |->
      << <<"D", "e", "v", "i", "c", "e">>,
         <<"A", "p", "p", "l", "i", "c", "a", "t", "i", "o", "n">>,
         <<"I", "n", "t", "u", "n", "e">>,
         <<"E", "n", "d", "p", "o", "i", "n", "t">> >>,
    dataProtection |->
      << <<"M", "a", "i", "l", "b", "o", "x">>,
         <<"S", "h", "a", "r", "e", "P", "o", "i", "n", "t">>,
         <<"D", "L", "P">>,
         <<"E", "x", "c", "h", "a", "n", "g", "e">>,
         <<"E", "m", "a", "i", "l">>,
         <<"D", "o", "m", "a", "i", "n">> >>,
    licenseManagement |->
      << <<"L", "i", "c", "e", "n", "s", "e">>,
         <<"S", "u", "b", "s", "c", "r", "i", "p", "t", "i", "o", "n">> >> ]

\* t.toLowerCase() of every keyword
LowerTypes ==
  [key \in DOMAIN CategoryTypes |->
     [n \in 1..Len(CategoryTypes[key]) |-> LowerText(CategoryTypes[key][n])]]

\* value.types.some(t => category.toLowerCase().includes(t.toLowerCase()) ||
\*   (issue.type && issue.type.toLowerCase().includes(t.toLowerCase())))
TypesMatch(issue, key) ==
  LET category == LowerText(issue.affectedObject.type)
      type == IF Has(issue, "type") THEN LowerText(issue.type) ELSE <<>>
  IN \E n \in 1..Len(LowerTypes[key]) :
       \/ TextIncludes(category, LowerTypes[key][n])
       \/ /\ Has(issue, "type")
          /\ issue.type # <<>>
          /\ TextIncludes(type, LowerTypes[key][n])

ImpactScore(severity) ==
  IF severity = "High" THEN HighWeight
  ELSE IF severity = "Medium" THEN MediumWeight
  ELSE LowWeight

RECURSIVE FileUnder(_, _, _)
\* the inner for-loop over Object.entries(categoryMappings), from the n-th
\* entry on: the first entry that matches takes the issue, then break
FileUnder_NoBreak(mappings, issue, n) ==
  IF n > Len(CategoryKeys) THEN mappings
  ELSE LET key == CategoryKeys[n]
       IN IF TypesMatch(issue, key)
          THEN FileUnder([mappings EXCEPT
                            ![key].issues = @ + 1,
                            ![key].score = Max2(0, @ - ImpactScore(issue.severity))],
                         issue, n + 1)
          ELSE FileUnder(mappings, issue, n + 1)

FileUnder(mappings, issue, n) ==
  IF n > Len(CategoryKeys) THEN mappings
  ELSE LET key == CategoryKeys[n]
       IN IF TypesMatch(issue, key)
          THEN [mappings EXCEPT
                  ![key].issues = @ + 1,
                  ![key].score = Max2(0, @ - ImpactScore(issue.severity))]
          ELSE FileUnder(mappings, issue, n + 1)

RECURSIVE CategoryMappings(_)
\* categoryMappings after issues.forEach
CategoryMappings(issues) ==
  IF issues = <<>>
  THEN [key \in {CategoryKeys[n] : n \in 1..Len(CategoryKeys)} |->
          [score |-> MaxScore, issues |-> 0]]
  ELSE FileUnder(CategoryMappings(SubSeq(issues, 1, Len(issues) - 1)),
                 issues[Len(issues)], 1)

\* the issues a stored scan may hold
IssueSamples ==
  << [ affectedObject |-> [type |-> <<"U", "s", "e", "r">>],
       type |-> <<"M", "F", "A", " ", "N", "o", "t", " ", "C", "o", "n", "f", "i", "g", "u", "r", "e", "d">>,
       severity |-> "High" ],
     [ affectedObject |-> [type |-> <<"P", "o", "l", "i", "c", "y">>],
       type |-> <<"L", "i", "c", "e", "n", "s", "e", " ", "M", "a", "n", "a", "g", "e", "m", "e", "n", "t", " ", "A", "c", "c", "e", "s", "s", " ", "R", "e", "q", "u", "i", "r", "e", "d">>,
       severity |-> "Medium" ],
     [ affectedObject |-> [type |-> <<"M", "a", "i", "l", "b", "o", "x">>],
       type |-> <<"E", "x", "t", "e", "r", "n", "a", "l", " ", "E", "m", "a", "i", "l", " ", "F", "o", "r", "w", "a", "r", "d", "i", "n", "g">>,
       severity |-> "Medium" ],
     [ affectedObject |-> [type |-> <<"U", "s", "e", "r">>],
       type |-> <<"G", "u", "e", "s", "t", " ", "U", "s", "e", "r", " ", "A", "c", "c", "e", "s", "s">>,
       severity |-> "Low" ],
     [ affectedObject |-> [type |-> <<"G", "r", "o", "u", "p">>],
       type |-> <<"O", "w", "n", "e", "r", "l", "e", "s", "s">>,
       severity |-> "Low" ],
     [ affectedObject |-> [type |-> <<"T", "e", "n", "a", "n", "t">>],
       type |-> <<"U", "n", "u", "s", "e", "d", " ", "L", "i", "c", "e", "n", "s", "e", "s">>,
       severity |-> "Low" ],
     [ affectedObject |-> [type |-> <<"M", "a", "n", "a", "g", "e", "d", "D", "e", "v", "i", "c", "e">>],
       severity |-> "High" ] >>

\* a scan with one more issue is read; the issues are kept in the order of
\* IssueSamples, the counts and scores do not depend on the order
FileIssue(n) ==
  /\ Len(filed) < MaxFiled
  /\ filed # <<>> => filed[Len(filed)] <= n
  /\ filed' = Append(filed, n)
  /\ UNCHANGED << authVars, isScanning, isFixing, currentScan, scanHistory, latestScan,
                  scanJob, fixJobs, historyKeys, scanKeys, now, uncaught, lastOp,
                  completed, collectVars, scoredIssues, tabs, tabWrites, batch,
                  session >>

FiledIssues == [i \in 1..Len(filed) |-> IssueSamples[filed[i]]]

NextCategories == \E n \in 1..Len(IssueSamples) : FileIssue(n)

SpecCategories == Init /\ [][NextCategories]_vars

\* ------------------------------------------------------------------------
\* generateScan and the "Security Posture" group of the results page on
\* their own: the bag handed to generateScan holds up to MaxRecords rows and
\* failed endpoints
\* ------------------------------------------------------------------------
MaxRecords == 3

\* The characters of the path segments the results page compares
Spelling ==
  ("graph.microsoft.com" :>
       <<"g", "r", "a", "p", "h", ".", "m", "i", "c", "r", "o", "s", "o",
       "f", "t", ".", "c", "o", "m">>)
  @@ ("beta" :>
       <<"b", "e", "t", "a">>)
  @@ ("security" :>
       <<"s", "e", "c", "u", "r", "i", "t", "y">>)
  @@ ("secureScores" :>
       <<"s", "e", "c", "u", "r", "e", "S", "c", "o", "r", "e", "s">>)
  @@ ("secureScoreControlProfiles" :>
       <<"s", "e", "c", "u", "r", "e", "S", "c", "o", "r", "e", "C", "o",
       "n", "t", "r", "o", "l", "P", "r", "o", "f", "i", "l", "e", "s">>)
  @@ ("complianceScores" :>
       <<"c", "o", "m", "p", "l", "i", "a", "n", "c", "e", "S", "c", "o",
       "r", "e", "s">>)
  @@ ("complianceProfiles" :>
       <<"c", "o", "m", "p", "l", "i", "a", "n", "c", "e", "P", "r", "o",
       "f", "i", "l", "e", "s">>)
  @@ ("defender" :>
       <<"d", "e", "f", "e", "n", "d", "e", "r">>)
  @@ ("alerts" :>
       <<"a", "l", "e", "r", "t", "s">>)
  @@ ("dataLossPreventionPolicies" :>
       <<"d", "a", "t", "a", "L", "o", "s", "s", "P", "r", "e", "v", "e",
       "n", "t", "i", "o", "n", "P", "o", "l", "i", "c", "i", "e", "s">>)
  @@ ("users" :>
       <<"u", "s", "e", "r", "s">>)
  @@ ("guestUsers" :>
       <<"g", "u", "e", "s", "t", "U", "s", "e", "r", "s">>)
  @@ ("subscribedSkus" :>
       <<"s", "u", "b", "s", "c", "r", "i", "b", "e", "d", "S", "k", "u",
       "s">>)
  @@ ("identityProtection" :>
       <<"i", "d", "e", "n", "t", "i", "t", "y", "P", "r", "o", "t", "e",
       "c", "t", "i", "o", "n">>)
  @@ ("riskyUsers" :>
       <<"r", "i", "s", "k", "y", "U", "s", "e", "r", "s">>)

RECURSIVE PathText(_)
\* The text of a path: its segments joined by "/"
PathText(path) ==
  IF Len(path) = 1 THEN Spelling[path[1]]
  ELSE Spelling[path[1]] \o <<"/">> \o PathText(Tail(path))

\* hasApiError(errorKeys) of the results page, on the scan it shows
HasApiError_CaseSensitive(scan, errorKeys) ==
  /\ Has(scan, "apiErrors")
  /\ \E k \in 1..Len(errorKeys) : \E e \in 1..Len(scan.apiErrors) :
       LET error == LowerText(PathText(scan.apiErrors[e]))
           key == PathText(errorKeys[k])
       IN \/ TextIncludes(error, key)
          \/ TextIncludes(error, PathText(<<"graph.microsoft.com", "beta">>)
                                   \o <<"/">> \o key)
          \/ TextIncludes(error, PathText(<<"graph.microsoft.com">>)
                                   \o <<"/", "v", "1", ".", "0", "/">> \o key)

HasApiError(scan, errorKeys) ==
  /\ Has(scan, "apiErrors")
  /\ \E k \in 1..Len(errorKeys) : \E e \in 1..Len(scan.apiErrors) :
       LET error == LowerText(PathText(scan.apiErrors[e]))
           key == LowerText(PathText(errorKeys[k]))
       IN \/ TextIncludes(error, key)
          \/ TextIncludes(error, PathText(<<"graph.microsoft.com", "beta">>)
                                   \o <<"/">> \o key)
          \/ TextIncludes(error, PathText(<<"graph.microsoft.com">>)
                                   \o <<"/", "v", "1", ".", "0", "/">> \o key)

\* The rows of the "Security Posture" group: the keys handed to hasApiError
\* and the issue type the row looks for otherwise
SecurityPostureRows ==
  << [ label |-> "Microsoft Secure Score",
       errorKeys |-> << <<"security", "secureScores">>,
                        <<"security", "secureScoreControlProfiles">> >>,
       issueType |-> "LowSecureScore" ],
     [ label |-> "Compliance Score",
       errorKeys |-> << <<"security", "complianceScores">>,
                        <<"security", "complianceProfiles">> >>,
       issueType |-> "LowComplianceScore" ],
     [ label |-> "Defender Exposure Score",
       errorKeys |-> << <<"security", "secureScores", "defender">>,
                        <<"security", "alerts">> >>,
       issueType |-> "HighExposureScore" ] >>

\* The icon a row shows: AlertTriangle for a failed endpoint or a matching
\* issue, CheckCircle2 otherwise
RowIndicator(scan, row) ==
  IF HasApiError(scan, row.errorKeys) THEN "AlertTriangle"
  ELSE IF \E i \in 1..Len(scan.issues) :
            Has(scan.issues[i], "type") /\ scan.issues[i].type = row.issueType
       THEN "AlertTriangle"
  ELSE "CheckCircle2"

\* The endpoint of the Secure Score row, as the collector spells a failure
SecureScoresError == ErrorString(<<"security", "secureScores">>)

\* Failed endpoints a bag may hold: the Secure Score endpoint and four of
\* those endpointMap records
ErrorSamples ==
  { SecureScoresError,
    ErrorString(<<"security", "dataLossPreventionPolicies">>),
    ErrorString(<<"users">>),
    ErrorString(<<"users", "guestUsers">>),
    ErrorString(<<"identityProtection", "riskyUsers">>) }

\* Rows the Graph API may answer for the datasets of the four detectors
RowSamples ==
  [ riskyUsers |-> {User("ann@contoso.com"), [id |-> "u2"]},
    mfaStatus |-> { [userPrincipalName |-> "ann@contoso.com", isMfaEnabled |-> TRUE],
                    [userPrincipalName |-> "bob@contoso.com", isMfaEnabled |-> FALSE],
                    [id |-> "u3", isMfaEnabled |-> FALSE] },
    inactiveUsers |-> {User("old@contoso.com"), [id |-> "u4"]},
    guestUsers |-> {User("guest#EXT#@contoso.com"), [id |-> "u5"]} ]

\* The bag of a collection in which every call succeeded and found nothing
EmptyBag == FetchMicrosoftGraphData({}, {}, CleanTenant)

BagOrEmpty == IF graphResult = JsNull THEN EmptyBag ELSE graphResult

RECURSIVE SumLen(_, _)
SumLen(bag, names) ==
  IF names = {} THEN 0
  ELSE LET n == CHOOSE m \in names : TRUE
       IN Len(bag.datasets[n].items) + SumLen(bag, names \ {n})

BagSize(bag) == SumLen(bag, DOMAIN RowSamples) + Len(bag.apiErrors)

\* generateScan(accessToken, tenantId, tenantInfo.displayName, realData)
GenerateFrom(bag) ==
  /\ graphResult' = bag
  /\ collectedScan' = ScanOfGraphResult("A", bag, 1)
  /\ UNCHANGED << authVars, isScanning, isFixing, currentScan, scanHistory, latestScan,
                  scanJob, fixJobs, historyKeys, scanKeys, now, uncaught, lastOp,
                  completed, collectInput, scoredIssues, sideVars >>

\* one more row in a dataset of the bag
GraphHolds(dataset, row) ==
  /\ BagSize(BagOrEmpty) < MaxRecords
  /\ GenerateFrom([BagOrEmpty EXCEPT
                     !.datasets[dataset] = JsList(Append(@.items, row))])

\* one more failed endpoint in the bag
EndpointFailed(error) ==
  /\ BagSize(BagOrEmpty) < MaxRecords
  /\ GenerateFrom([BagOrEmpty EXCEPT !.apiErrors = Append(@, error)])

NextGenerate ==
  \/ \E dataset \in DOMAIN RowSamples : \E row \in RowSamples[dataset] :
       GraphHolds(dataset, row)
  \/ \E error \in ErrorSamples : EndpointFailed(error)

SpecGenerate == Init /\ [][NextGenerate]_vars

\* ------------------------------------------------------------------------
\* One startScan and the joined batch of its collector
\* ------------------------------------------------------------------------
MaxBatchScans == 2

\* startScan runs with a token and a tenant (its first check passed)
BatchTenant == "A"

\* the calls of a batch that never settle: none, or one of them
HungChoices == {{}} \cup {{i} : i \in Calls}

\* the calls whose request may be answered with an error
FlakyCalls == {22}

\* startScan: isScanning is set and fetchMicrosoftGraphData issues every call
\* of the batch at once
BatchStart(hung) ==
  /\ batch = JsNull
  /\ ~isScanning
  /\ now < MaxBatchScans
  /\ isScanning' = TRUE
  /\ batch' = [pending |-> Calls, hung |-> hung, failed |-> {},
               scanHistory |-> scanHistory]
  /\ UNCHANGED << authVars, isFixing, currentScan, scanHistory, latestScan, scanJob,
                  fixJobs, historyKeys, scanKeys, now, uncaught, lastOp, completed,
                  collectVars, scoredIssues, tabs, tabWrites, session, filed >>

\* one call of the batch settles: its wrapper resolves, with the data or with
\* success false.  A call settles independently of the others and Promise.all
\* keeps the results by index, so the calls are taken in index order.
CallSettles(i, ok) ==
  /\ batch # JsNull
  /\ i \in batch.pending \ batch.hung
  /\ \A j \in batch.pending \ batch.hung : i <= j
  /\ ok \/ i \in FlakyCalls
  /\ batch' = [batch EXCEPT !.pending = @ \ {i},
                            !.failed = IF ok THEN @ ELSE @ \cup {<<i, 1>>}]
  /\ UNCHANGED << authVars, isScanning, isFixing, currentScan, scanHistory, latestScan,
                  scanJob, fixJobs, historyKeys, scanKeys, now, uncaught, lastOp,
                  completed, collectVars, scoredIssues, tabs, tabWrites, session, filed >>

\* every call has settled: Promise.all resolves and startScan runs to its end
BatchJoin_FirstSettled ==
  /\ batch # JsNull
  /\ batch.pending # Calls
  /\ LET result == FetchMicrosoftGraphData(batch.failed, {}, RiskyTenant)
         scanData == ScanOfGraphResult(BatchTenant, result, now + 1)
         updatedHistory == Slice0(<<scanData.summary>> \o batch.scanHistory,
                                  HistoryLimit)
         savedScans == (scanData.summary.id :> Stringify(scanData)) @@ scanKeys
         converted == ConvertToLatestScanData(scanData.summary, savedScans)
     IN /\ now' = now + 1
        /\ currentScan' = scanData
        /\ scanHistory' = updatedHistory
        /\ historyKeys' = (BatchTenant :> Stringify(updatedHistory)) @@ historyKeys
        /\ scanKeys' = savedScans
        /\ IF converted.kind = "throw"
           THEN UNCHANGED latestScan
           ELSE latestScan' = [converted.value EXCEPT
                                 !.usesRealData = scanData.usesRealData,
                                 !.issues = scanData.issues]
  /\ isScanning' = FALSE
  /\ batch' = JsNull
  /\ UNCHANGED << authVars, isFixing, scanJob, fixJobs, uncaught, lastOp, completed,
                  collectVars, scoredIssues, tabs, tabWrites, session, filed >>

BatchJoin ==
  /\ batch # JsNull
  /\ batch.pending = {}
  /\ LET result == FetchMicrosoftGraphData(batch.failed, {}, RiskyTenant)
         scanData == ScanOfGraphResult(BatchTenant, result, now + 1)
         updatedHistory == Slice0(<<scanData.summary>> \o batch.scanHistory,
                                  HistoryLimit)
         savedScans == (scanData.summary.id :> Stringify(scanData)) @@ scanKeys
         converted == ConvertToLatestScanData(scanData.summary, savedScans)
     IN /\ now' = now + 1
        /\ currentScan' = scanData
        /\ scanHistory' = updatedHistory
        /\ historyKeys' = (BatchTenant :> Stringify(updatedHistory)) @@ historyKeys
        /\ scanKeys' = savedScans
        /\ IF converted.kind = "throw"
           THEN UNCHANGED latestScan
           ELSE latestScan' = [converted.value EXCEPT
                                 !.usesRealData = scanData.usesRealData,
                                 !.issues = scanData.issues]
  /\ isScanning' = FALSE
  /\ batch' = JsNull
  /\ UNCHANGED << authVars, isFixing, scanJob, fixJobs, uncaught, lastOp, completed,
                  collectVars, scoredIssues, tabs, tabWrites, session, filed >>

NextBatch ==
  \/ \E hung \in HungChoices : BatchStart(hung)
  \/ \E i \in Calls : \E ok \in BOOLEAN : CallSettles(i, ok)
  \/ BatchJoin

\* the step that ends the batch: of NextBatch only BatchJoin is such a step
JoinContinues == batch # JsNull /\ batch.pending = {} /\ batch' = JsNull

\* a call that is not hung settles, and the continuation of a resolved
\* Promise.all is run by the event loop
SpecBatch ==
  /\ Init
  /\ [][NextBatch]_vars
  /\ WF_batch(\E i \in Calls : \E ok \in BOOLEAN : CallSettles(i, ok))
  /\ WF_batch(JoinContinues)

\* ------------------------------------------------------------------------
\* C1: for every issue set the overall risk score (generateScan's and the
\* results page's) is an integer in [0,100], and one more issue of any
\* severity never increases it.
\* ------------------------------------------------------------------------
OneMoreIssue == {[severity |-> sev, status |-> st] : sev \in Severities,
                                                     st \in {"Open", "Fixed"}}

C1_ScoreBoundedMonotone ==
  /\ OverallRiskScore(scoredIssues) \in 0..100
  /\ CalculateSecurityScore(scoredIssues) \in 0..100
  /\ \A issue \in OneMoreIssue :
       /\ OverallRiskScore(Append(scoredIssues, issue)) <= OverallRiskScore(scoredIssues)
       /\ CalculateSecurityScore(Append(scoredIssues, issue))
            <= CalculateSecurityScore(scoredIssues)

\* An issue set whose weighted sum exceeds 100, so that the score is clamped at 0
C1_Witness ==
  /\ Len(scoredIssues) = MaxIssues
  /\ \A i \in 1..Len(scoredIssues) :
       scoredIssues[i].severity = "High" /\ scoredIssues[i].status = "Open"
  /\ OverallRiskScore(scoredIssues) = 0

\* ------------------------------------------------------------------------
\* Vocabulary of the claims
\* ------------------------------------------------------------------------
\* clamp(100 - 15*High - 7*Medium - 3*Low, 0, 100)
ClampedScore(issues) ==
  LET raw == 100 - 15 * CountSeverity(issues, "High")
                 - 7 * CountSeverity(issues, "Medium")
                 - 3 * CountSeverity(issues, "Low")
  IN IF raw < 0 THEN 0 ELSE IF raw > 100 THEN 100 ELSE raw

\* The snapshots startScan wrote (fixIssue's snapshots have no usesRealData)
WrittenByStartScan(id) ==
  id \in DOMAIN scanKeys /\ Has(Parse(scanKeys[id]), "usesRealData")

\* getScanById(id) when the scan is not the current scan of the tab
ReadBack(id) == GetScanByExactId(id, "A", JsNull, scanKeys)

IsScanView(read) == read.kind = "ok" /\ Has(read.value, "issues")

StoredHistory(tenant) ==
  IF tenant \in DOMAIN historyKeys THEN Parse(historyKeys[tenant]) ELSE <<>>

\* ------------------------------------------------------------------------
\* C2: the overallRiskScore of a scan created by generateScan is
\* clamp(100 - 15*High - 7*Medium - 3*Low, 0, 100) over its issues, and the
\* dashboard (convertToLatestScanData) and the results page
\* (calculateSecurityScore over what getScanById returns) derive that same
\* value for the stored scan.
\* ------------------------------------------------------------------------
C2_ScoresAgree ==
  /\ \A id \in DOMAIN scanKeys :
       WrittenByStartScan(id) =>
         LET scan == Parse(scanKeys[id])
             dashboard == ConvertToLatestScanData(scan.summary, scanKeys)
             page == GetScanById(id)
         IN /\ scan.summary.overallRiskScore = ClampedScore(scan.issues)
            /\ dashboard.kind = "ok"
            /\ dashboard.value.securityScore = scan.summary.overallRiskScore
            /\ tenantId # "null" =>
                 /\ IsScanView(page)
                 /\ CalculateSecurityScore(page.value.issues)
                      = scan.summary.overallRiskScore
                 /\ page.value.securityScore = scan.summary.overallRiskScore
  /\ Has(currentScan, "summary") =>
       currentScan.summary.overallRiskScore = ClampedScore(currentScan.issues)

\* A scan with a High and a Medium issue was just stored: its score is 78
C2_Witness ==
  /\ lastOp.op = "startScan" /\ lastOp.outcome = "done"
  /\ tenantId # "null"
  /\ WrittenByStartScan(lastOp.scanId)
  /\ Parse(scanKeys[lastOp.scanId]).summary.overallRiskScore = 78
  /\ Has(latestScan, "id") /\ latestScan.securityScore = 78

\* ------------------------------------------------------------------------
\* C3: after any sequence of completed scans of a tenant, scanHistory_<tenant>
\* and the in-memory scanHistory hold at most 10 summaries, newest first,
\* which are exactly the most recently completed scans of that tenant.
\* ------------------------------------------------------------------------
C3_HistoryIsRecentScans ==
  /\ \A t \in Tenants :
       /\ Len(StoredHistory(t)) <= 10
       /\ StoredHistory(t) = Slice0(completed[t], 10)
  /\ (tenantId # "null" /\ ~uncaught) => scanHistory = Slice0(completed[tenantId], 10)

\* ------------------------------------------------------------------------
\* C4: every ScanData written to storage (by startScan, re-written by
\* fixIssue) reads back by id with the same number of issues and the same
\* High/Medium/Low counts.
\* ------------------------------------------------------------------------
C4_RoundTrip ==
  \A id \in DOMAIN scanKeys :
    LET written == Parse(scanKeys[id])
        read == ReadBack(id)
    IN /\ IsScanView(read)
       /\ Len(read.value.issues) = Len(written.issues)
       /\ read.value.highRiskIssues = CountSeverity(written.issues, "High")
       /\ read.value.mediumRiskIssues = CountSeverity(written.issues, "Medium")
       /\ read.value.lowRiskIssues = CountSeverity(written.issues, "Low")

\* ------------------------------------------------------------------------
\* C5: after fixIssue(scanId, issueId) completed successfully for an existing
\* scan and an Open issue of it, getScanById(scanId) returns that issue as
\* Fixed and an issuesFixed count one higher than before.
\* ------------------------------------------------------------------------
C5_FixIsVisible ==
  (lastOp.op = "fixIssue" /\ lastOp.outcome = "success" /\ lastOp.wasOpen
   /\ tenantId # "null") =>
    LET read == GetScanById(lastOp.scanId)
    IN /\ IsScanView(read)
       /\ \E i \in 1..Len(read.value.issues) :
            /\ read.value.issues[i].id = lastOp.issueId
            /\ read.value.issues[i].status = "Fixed"
       /\ read.value.issuesFixed = lastOp.fixedBefore + 1

\* ------------------------------------------------------------------------
\* C6: an issue's persisted status only moves from Open to Fixed: once an
\* issue is stored as Fixed, no later operation stores it as Open again.
\* ------------------------------------------------------------------------
StoredStatus(saved, scanId, issueId) ==
  LET issues == IF scanId \in DOMAIN saved THEN Parse(saved[scanId]).issues ELSE <<>>
  IN IF \E i \in 1..Len(issues) : issues[i].id = issueId
     THEN (CHOOSE issue \in {issues[i] : i \in 1..Len(issues)} :
             issue.id = issueId).status
     ELSE "absent"

C6_FixedStaysFixed ==
  [][ \A scanId \in DOMAIN scanKeys \cap DOMAIN scanKeys' :
        \A issueId \in IssueIdsOf(Parse(scanKeys[scanId])) :
          StoredStatus(scanKeys, scanId, issueId) = "Fixed"
            => StoredStatus(scanKeys', scanId, issueId) # "Open" ]_vars

\* ------------------------------------------------------------------------
\* C7: fixing an already Fixed issue does not change the issuesFixed count
\* getScanById reports; after any sequence of fixIssue calls issuesFixed
\* equals the number of distinct issues of the scan that were fixed: every
\* successful fixIssue raises the reported count by one when the issue was not
\* stored as Fixed before, and leaves it unchanged when it was.
\* ------------------------------------------------------------------------
ReportedFixed(read) == IF IsScanView(read) THEN read.value.issuesFixed ELSE -1

C7_IssuesFixedCountsDistinct ==
  [][ (lastOp'.op = "fixIssue" /\ lastOp' # lastOp /\ tenantId # "null") =>
        LET scanId == lastOp'.scanId
            before == ReportedFixed(GetScanById(scanId))
            after == ReportedFixed(GetScanByIdIn(scanId, tenantId', latestScan',
                                                 currentScan', scanKeys'))
        IN /\ before >= 0 /\ after >= 0
           /\ after = IF StoredStatus(scanKeys, scanId, lastOp'.issueId) = "Fixed"
                      THEN before ELSE before + 1 ]_vars

\* ------------------------------------------------------------------------
\* C8: fetchMicrosoftGraphData resolves for every combination of failed and
\* successful calls, and for every call that reports success=false the bag
\* holds the empty default of that call's dataset and apiErrors holds an entry
\* naming that call's endpoint.
\* ------------------------------------------------------------------------
\* The endpoint a call is known by: its key in endpointMap; checkOrganizationSettings
\* (call 24) has no key, its first request goes to mobileThreatDefenseConnectors
CallEndpoint(i) ==
  IF \E k \in 1..Len(EndpointMap) :
        \E j \in 1..Len(EndpointMap[k].indices) : EndpointMap[k].indices[j] = i
  THEN EndpointMap[CHOOSE k \in 1..Len(EndpointMap) :
         \E j \in 1..Len(EndpointMap[k].indices) : EndpointMap[k].indices[j] = i].endpoint
  ELSE <<"deviceManagement", "mobileThreatDefenseConnectors">>

FailedCalls ==
  {i \in Calls : ~CallSuccess(i, collectInput.failed, collectInput.nullBody)}

Occurs(item, list) == \E j \in 1..Len(list) : list[j] = item

C8_FailedCallsAreTagged ==
  graphResult # JsNull =>
    \A i \in FailedCalls :
      /\ Has(graphResult, "datasets")
      /\ graphResult.datasets[DatasetName(i)] = DatasetDefault(i)
      /\ Occurs(ErrorString(CallEndpoint(i)), graphResult.apiErrors)

\* ------------------------------------------------------------------------
\* C9: whenever calls failed during collection the scan still completes and
\* holds exactly one Medium "<Category> Access Required" issue for each of the
\* five error categories that has a failed endpoint, and every failed endpoint
\* is in the affectedItems of exactly one such issue and in the scan's
\* apiErrors.
\* ------------------------------------------------------------------------
ErrorCategories ==
  {"Identity Protection", "Mail Settings", "Security Settings", "License Management",
   "API Access"}

\* The category the keyword classifier of the spec gives an endpoint
CategoryOf(endpoint) ==
  IF Includes(endpoint, "identityProtection") THEN "Identity Protection"
  ELSE IF Includes(endpoint, "mailFolders") THEN "Mail Settings"
  ELSE IF Includes(endpoint, "security") THEN "Security Settings"
  ELSE IF Includes(endpoint, "subscribedSkus") THEN "License Management"
  ELSE "API Access"

AccessIssues(scan, category) ==
  {n \in 1..Len(scan.issues) : scan.issues[n].type = category \o " Access Required"}

C9_OneIssuePerErrorCategory ==
  (collectedScan # JsNull /\ FailedCalls # {}) =>
    /\ \A c \in ErrorCategories :
         /\ Cardinality(AccessIssues(collectedScan, c))
              = IF \E i \in FailedCalls : CategoryOf(CallEndpoint(i)) = c THEN 1 ELSE 0
         /\ \A n \in AccessIssues(collectedScan, c) :
              collectedScan.issues[n].severity = "Medium"
    /\ \A i \in FailedCalls :
         LET e == ErrorString(CallEndpoint(i))
         IN /\ Occurs(e, collectedScan.apiErrors)
            /\ Cardinality({ <<c, n>> \in ErrorCategories \X (1..Len(collectedScan.issues)) :
                              /\ n \in AccessIssues(collectedScan, c)
                              /\ Occurs(e, collectedScan.issues[n].affectedItems) }) = 1

\* ------------------------------------------------------------------------
\* C10: getScanById("latest") returns the scan whose id is the first entry of
\* the tenant's history whenever that history is not empty, and null when
\* there is no scan.
\* ------------------------------------------------------------------------
C10_LatestIsHeadOfHistory ==
  (tenantId # "null" /\ ~uncaught /\ scanJob = JsNull) =>
    LET read == GetScanById("latest")
        history == StoredHistory(tenantId)
    IN /\ history # <<>> => IsScanView(read) /\ read.value.id = history[1].id
       /\ history = <<>> => read = Returned(JsNull)

\* ------------------------------------------------------------------------
\* C11: when the history write of a scan happened and its snapshot write did
\* not, then after the reload getScanById of that entry's id returns null
\* without an error (a read: storage is not an output of it), and the
\* dashboard data computed for the entry has zero issues.
\* ------------------------------------------------------------------------
DanglingEntries(tenant) ==
  {n \in 1..Len(StoredHistory(tenant)) :
     StoredHistory(tenant)[n].id \notin DOMAIN scanKeys}

C11_DanglingEntryReadsAsMissing ==
  (tenantId # "null" /\ currentScan = JsNull) =>
    \A n \in DanglingEntries(tenantId) :
      LET entry == StoredHistory(tenantId)[n]
          dashboard == ConvertToLatestScanData(entry, scanKeys)
      IN /\ GetScanById(entry.id) = Returned(JsNull)
         /\ dashboard.kind = "ok"
         /\ dashboard.value.issues = <<>>
         /\ dashboard.value.highRiskIssues = 0
         /\ dashboard.value.mediumRiskIssues = 0
         /\ dashboard.value.lowRiskIssues = 0

C11_Witness ==
  /\ lastOp.op = "startScanCrash"
  /\ tenantId # "null"
  /\ currentScan = JsNull
  /\ StoredHistory(tenantId)[1].id \notin DOMAIN scanKeys
  /\ StoredHistory(tenantId)[1].issueCountsBySeverity.High > 0
  /\ Has(latestScan, "id") /\ latestScan.id = StoredHistory(tenantId)[1].id
  /\ latestScan.issues = <<>>

\* ------------------------------------------------------------------------
\* C12: after clearScanHistory completes, storage holds no snapshot key and no
\* history entry for the tenant, the in-memory history and latest scan are
\* empty, and getScanById returns null for every scan id that existed before
\* the clear.
\* ------------------------------------------------------------------------
ScanIdsBefore ==
  DOMAIN scanKeys
    \cup {scanHistory[n].id : n \in 1..Len(scanHistory)}
    \cup (IF Has(currentScan, "summary") THEN {currentScan.summary.id} ELSE {})

C12_ClearForgetsEveryScan ==
  [][ ClearScanHistory =>
        /\ scanKeys' = << >>
        /\ tenantId \notin DOMAIN historyKeys'
        /\ scanHistory' = <<>>
        /\ latestScan' = JsNull
        /\ \A id \in ScanIdsBefore :
             GetScanByIdIn(id, tenantId', latestScan', currentScan', scanKeys')
               = Returned(JsNull) ]_vars

\* ------------------------------------------------------------------------
\* C13: within one application instance no two scans run concurrently: a scan
\* in flight keeps isScanning true, no collection starts while another is in
\* flight, and the history key is written for a scan only by the step that
\* ends the one scan in flight.
\* ------------------------------------------------------------------------
ScanInFlight == scanJob # JsNull

RacedWithLastWrite(i) ==
  LET last == tabWrites[Len(tabWrites)]
  IN /\ i < Len(tabWrites)
     /\ tabWrites[i].tab # last.tab
     /\ tabWrites[i].id \notin last.seen
     /\ last.id \notin tabWrites[i].seen

C14_LastWriterWins ==
  \A i \in 1..Len(tabWrites) :
    RacedWithLastWrite(i) =>
      LET last == tabWrites[Len(tabWrites)]
      IN /\ StoredHistory(TabTenant) = tabs[last.tab].scanHistory
         /\ StoredHistory(TabTenant)[1].id = last.id
         /\ SummaryIds(StoredHistory(TabTenant)) = {last.id} \cup last.seen
         /\ tabWrites[i].id \notin SummaryIds(StoredHistory(TabTenant))
         /\ {tabWrites[i].id, last.id} \subseteq DOMAIN scanKeys

C14_Witness ==
  /\ Len(tabWrites) = 2
  /\ RacedWithLastWrite(1)
  /\ tabWrites[1].seen = {}
  /\ Len(StoredHistory(TabTenant)) = 1
  /\ Cardinality(DOMAIN scanKeys) = 2

\* ------------------------------------------------------------------------
\* C15: startScan persists, resets isScanning and returns only after every
\* call of the batch has settled; when one call never settles nothing is
\* persisted and isScanning stays true forever; when every call settles
\* startScan eventually finishes with isScanning false.
\* ------------------------------------------------------------------------
BatchInFlight == batch # JsNull

C15_JoinWaitsForEveryCall ==
  /\ [][ (BatchInFlight /\ (~isScanning' \/ ~BatchInFlight'
                               \/ historyKeys' # historyKeys
                               \/ scanKeys' # scanKeys))
           => batch.pending = {} ]_vars
  /\ []( (BatchInFlight /\ batch.hung # {})
           => [](BatchInFlight /\ isScanning /\ batch.pending # {}
                   /\ SummaryIds(StoredHistory(BatchTenant)) \cup DOMAIN scanKeys
                        = SummaryIds(batch.scanHistory)) )
  /\ (BatchInFlight /\ batch.hung = {}) ~>
        (~BatchInFlight /\ ~isScanning /\ Has(currentScan, "summary"))

C15_Witness ==
  /\ BatchInFlight
  /\ batch.hung # {}
  /\ batch.pending = batch.hung
  /\ batch.failed # {}
  /\ isScanning

\* ------------------------------------------------------------------------
\* C16: while the session is authenticated at most one deferred refresh timer
\* is pending; it is set to fire 5 minutes before the stored expiresAt, and
\* the refresh starts at once, without a timer, when that moment has passed;
\* a change of the access token or a logout cancels the timer that was
\* pending.
\* ------------------------------------------------------------------------
EffectRan(a, b) ==
  << b.isAuthenticated, b.accessToken >> # << a.isAuthenticated, a.accessToken >>

C16_OneRefreshTimer ==
  [][ /\ Cardinality(session'.timers) <= 1
      /\ \A t \in session'.timers :
           /\ session'.isAuthenticated
           /\ t.accessToken = session'.accessToken
           /\ t.fireAt = session'.expiresAt - RefreshBuffer
      /\ \A t \in session'.timers \ session.timers : t.fireAt > session'.clock
      /\ ( /\ EffectRan(session, session')
           /\ session'.isAuthenticated /\ session'.accessToken # 0
           /\ session'.expiresAt # 0
           /\ session'.expiresAt - RefreshBuffer <= session'.clock )
         => /\ session'.timers = {}
            /\ \E r \in session'.refreshes \ session.refreshes : r.origin = "effect"
      /\ EffectRan(session, session') => session'.timers \cap session.timers = {}
      /\ ~session'.isAuthenticated => session'.timers = {}
    ]_vars

C16_Witness ==
  /\ session.isAuthenticated
  /\ session.accessToken = 2
  /\ session.timers = {[fireAt |-> session.expiresAt - RefreshBuffer, accessToken |-> 2]}
  /\ session.clock < session.expiresAt - RefreshBuffer
  /\ session.refreshes = {}

\* ------------------------------------------------------------------------
\* C17: fixIssue or exportScanResults with a scan id that resolves to no scan,
\* and fixIssue with an issue id that is not in the scan, abort: no storage
\* key is written, no issue changes its status (no write is scheduled
\* either), nothing is downloaded, and isFixing is null afterwards.
\* ------------------------------------------------------------------------
NothingWritten ==
  /\ scanKeys' = scanKeys
  /\ historyKeys' = historyKeys
  /\ currentScan' = currentScan
  /\ latestScan' = latestScan
  /\ fixJobs' = fixJobs
  /\ lastOp'.op \notin {"export", "fixIssue"}

C17_NotFoundAborts ==
  [][ \A scanId \in KnownScanIds :
        LET scan == GetScanById(scanId)
        IN /\ scan = Returned(JsNull) =>
                /\ \A issueId \in FixableIssueIds(scanId) :
                     FixIssueBegin(scanId, issueId) =>
                       NothingWritten /\ isFixing' = "null"
                /\ \A format \in ExportFormats :
                     ExportScanResults(scanId, format) =>
                       NothingWritten /\ isFixing' = isFixing
           /\ IsScanView(scan) =>
                \A issueId \in FixableIssueIds(scanId) \ IssueIdsOf(scan.value) :
                  FixIssueBegin(scanId, issueId) =>
                    NothingWritten /\ isFixing' = "null"
    ]_vars

C17_Witness ==
  /\ lastOp = NotFoundOp
  /\ tenantId # "null"
  /\ scanKeys # << >>
  /\ isFixing = "null"
  /\ fixJobs = {}

\* ------------------------------------------------------------------------
\* C18: no sequence of operations (startScan with any mix of failed calls,
\* fixIssue, getScanById, clearScanHistory, loading the provider again from
\* storage) ends in an exception that nothing catches.
\* ------------------------------------------------------------------------
C18_NoUncaughtException == ~uncaught

\* ------------------------------------------------------------------------
\* C19: convertToLatestScanData counts each issue in at most one of the five
\* categories, the first one whose keywords match its affectedObject.type or
\* its type, and an unmatched issue in none; the counts sum to at most the
\* number of issues; each category's score is
\* clamp(100 - 15*High - 7*Medium - 3*Low, 0, 100) over the issues counted in
\* it; with no issues every category scores 100.
\* ------------------------------------------------------------------------
\* the issues whose first matching category is the n-th
FirstMatches(issues, n) ==
  SelectSeq(issues,
            LAMBDA issue :
              /\ TypesMatch(issue, CategoryKeys[n])
              /\ \A m \in 1..(n - 1) : ~TypesMatch(issue, CategoryKeys[m]))

RECURSIVE SumIssues(_, _)
SumIssues(mappings, n) ==
  IF n = 0 THEN 0 ELSE mappings[CategoryKeys[n]].issues + SumIssues(mappings, n - 1)

C19_OneCategoryPerIssue ==
  LET issues == FiledIssues
      mappings == CategoryMappings(issues)
  IN /\ \A n \in 1..Len(CategoryKeys) :
          LET members == FirstMatches(issues, n)
          IN /\ mappings[CategoryKeys[n]].issues = Len(members)
             /\ mappings[CategoryKeys[n]].score = ClampedScore(members)
     /\ SumIssues(mappings, Len(CategoryKeys)) <= Len(issues)
     /\ issues = <<>> =>
          \A n \in 1..Len(CategoryKeys) : mappings[CategoryKeys[n]].score = MaxScore

C19_Witness ==
  LET mappings == CategoryMappings(FiledIssues)
  IN /\ Len(filed) = MaxFiled
     /\ mappings["identityAccess"].score = 0
     /\ mappings["securityPosture"].issues = 1
     /\ mappings["licenseManagement"].issues = 0
     /\ SumIssues(mappings, Len(CategoryKeys)) = Len(filed)

\* ------------------------------------------------------------------------
\* C20: the badge of a score is "Good" from 80, "Needs Improvement" from 50 to
\* 79 and "Critical" below 50, on the results page and in the PDF export
\* alike; no issues give 100 and "Good", 2 High + 1 Medium give 63 and "Needs
\* Improvement", 5 High give 25 and "Critical".
\* ------------------------------------------------------------------------
OpenCounts(issues) ==
  << CountOpenSeverity(issues, "High"), CountOpenSeverity(issues, "Medium"),
     CountOpenSeverity(issues, "Low") >>

C20_BadgeThresholds ==
  LET score == CalculateSecurityScore(scoredIssues)
      badge == ResultsPageBadge(score)
  IN /\ badge = "Good" <=> score >= 80
     /\ badge = "Needs Improvement" <=> (50 <= score /\ score < 80)
     /\ badge = "Critical" <=> score < 50
     /\ PdfBadge(score) = badge
     /\ PdfBadge(OverallRiskScore(scoredIssues))
          = ResultsPageBadge(OverallRiskScore(scoredIssues))
     /\ OpenCounts(scoredIssues) = <<0, 0, 0>> => score = 100 /\ badge = "Good"
     /\ OpenCounts(scoredIssues) = <<2, 1, 0>> =>
          score = 63 /\ badge = "Needs Improvement"
     /\ OpenCounts(scoredIssues) = <<5, 0, 0>> => score = 25 /\ badge = "Critical"

C20_Witness ==
  /\ OpenCounts(scoredIssues) = <<0, 2, 2>>
  /\ CalculateSecurityScore(scoredIssues) = GoodThreshold
  /\ ResultsPageBadge(CalculateSecurityScore(scoredIssues)) = "Good"

\* ------------------------------------------------------------------------
\* C21 (as stated): a failed endpoint for security/secureScores recorded in a
\* scan's apiErrors produces exactly one warning indicator in the "Security
\* Posture" group of the results page and does not add a High, Medium or Low
\* issue to the scan.
\* ------------------------------------------------------------------------
\* The rows of the "Security Posture" group that show the warning icon
PostureWarnings(scan) ==
  {r \in 1..Len(SecurityPostureRows) :
     RowIndicator(ViewOfCurrentScan(scan), SecurityPostureRows[r]) = "AlertTriangle"}

\* The scan generateScan makes of the same bag without the failed endpoint
ScanWithout(error) ==
  ScanOfGraphResult("A",
    [graphResult EXCEPT !.apiErrors = SelectSeq(@, LAMBDA e : e # error)], 1)

SecureScoreFailed ==
  collectedScan # JsNull /\ Occurs(SecureScoresError, collectedScan.apiErrors)

Detectors ==
  { [dataset |-> "riskyUsers", type |-> "Risky Users Detected", severity |-> "High",
     fallback |-> "Unknown User"],
    [dataset |-> "mfaStatus", type |-> "MFA Not Configured", severity |-> "High",
     fallback |-> "Unknown User"],
    [dataset |-> "inactiveUsers", type |-> "Inactive Accounts", severity |-> "Medium",
     fallback |-> "Unknown User"],
    [dataset |-> "guestUsers", type |-> "Guest User Access", severity |-> "Low",
     fallback |-> "Unknown Guest"] }

\* The records of the bag a detector reports
MatchingRecords(bag, d) ==
  LET rows == bag.datasets[d.dataset].items
  IN IF d.dataset = "mfaStatus"
     THEN SelectSeq(rows, LAMBDA u : Has(u, "isMfaEnabled") => ~u.isMfaEnabled)
     ELSE rows

IssuesOfType(scan, type) == {n \in 1..Len(scan.issues) : scan.issues[n].type = type}

C22_OneIssuePerDetector ==
  collectedScan # JsNull =>
    \A d \in Detectors :
      LET matching == MatchingRecords(graphResult, d)
          found == IssuesOfType(collectedScan, d.type)
      IN /\ Cardinality(found) = IF Len(matching) > 0 THEN 1 ELSE 0
         /\ \A n \in found :
              LET issue == collectedScan.issues[n]
              IN /\ issue.severity = d.severity
                 /\ issue.status = "Open"
                 /\ Len(issue.affectedItems) = Len(matching)
                 /\ \A i \in 1..Len(matching) :
                      issue.affectedItems[i] = PrincipalName(matching[i], d.fallback)

\* two risky users, one of them without a principal name, and an MFA report
\* whose only row has MFA enabled: one issue, with two affected items
C22_Witness ==
  /\ collectedScan # JsNull
  /\ Len(graphResult.datasets["riskyUsers"].items) = 2
  /\ Len(graphResult.datasets["mfaStatus"].items) = 1
  /\ Len(collectedScan.issues) = 1
  /\ \E i \in 1..2 : collectedScan.issues[1].affectedItems[i] = "Unknown User"

\* ------------------------------------------------------------------------
\* C23: generateScan emits exactly one "External Email Forwarding" Medium
\* issue when at least one forwarding rule targets an address outside the
\* tenant's domain, listing one mailbox per such rule, and emits none when
\* every rule forwards to an address inside the tenant; this holds whether or
\* not the tenant's name could be retrieved.
\* ------------------------------------------------------------------------
\* The forwarding rules the collector handed to generateScan
ForwardingRules ==
  IF Has(graphResult, "datasets") /\ graphResult.datasets["emailForwarding"].kind = "list"
  THEN graphResult.datasets["emailForwarding"].items
  ELSE <<>>

\* Those that forward to an address outside the domain of the scanned tenant
OutsideRules ==
  SelectSeq(ForwardingRules,
            LAMBDA r : Has(r, "forwardTo")
                       /\ r.forwardTo[Len(r.forwardTo)] # collectInput.data.tenantName)

TenantNameRetrieved ==
  /\ Has(graphResult, "datasets")
  /\ graphResult.datasets["tenantInfo"].kind = "object"

C23_ExternalForwardingIsReported ==
  collectedScan # JsNull =>
    LET found == IssuesOfType(collectedScan, "External Email Forwarding")
    IN /\ Cardinality(found) = IF Len(OutsideRules) > 0 THEN 1 ELSE 0
       /\ \A n \in found :
            /\ collectedScan.issues[n].severity = "Medium"
            /\ Len(collectedScan.issues[n].affectedItems) = Len(OutsideRules)
            /\ \A i \in 1..Len(OutsideRules) :
                 collectedScan.issues[n].affectedItems[i] = OutsideRules[i].mailbox

\* ------------------------------------------------------------------------
\* C24: once logout has run, no access token or refresh token is present in
\* storage and the in-memory accessToken stays null until a new
\* authorization-code callback succeeds, even when a token refresh request
\* was in flight at the moment logout ran.
\* ------------------------------------------------------------------------
\* The state logout leaves behind: nothing stored, no token in memory
SignedOut(a) ==
  /\ a.storedToken = 0
  /\ a.accessToken = 0
  /\ ~a.isAuthenticated

\* handleAuthCallback resolved with tokens in this step
CallbackSucceeded ==
  /\ session.callback
  /\ ~session'.callback
  /\ session'.issued = session.issued + 1

C24_LogoutIsFinal ==
  [][ (SignedOut(session) /\ ~CallbackSucceeded) => SignedOut(session') ]_vars

\* ------------------------------------------------------------------------
\* C25: every token refresh attempt of an authenticated session has one of
\* two outcomes: if it fails the session ends logged out (all auth keys
\* removed from storage, isAuthenticated false), and if it succeeds a new
\* refresh is pending for the new expiresAt, so an authenticated session
\* never reaches the expiry of its access token without a refresh attempt
\* having been started.
\* ------------------------------------------------------------------------
\* A refresh is pending for the token of session a: its timer is set for
\* expiresAt minus the buffer, or its request is already in flight
RefreshPending(a) ==
  \/ \E timer \in a.timers :
       /\ timer.fireAt = a.expiresAt - RefreshBuffer
       /\ timer.accessToken = a.accessToken
  \/ \E refresh \in a.refreshes : refresh.accessToken = a.accessToken

RefreshStarted(a) == \E refresh \in a.refreshes : refresh.accessToken = a.accessToken

StoredFixed(saved, scanId) ==
  IF scanId \in DOMAIN saved
  THEN {issueId \in IssueIdsOf(Parse(saved[scanId])) :
          StoredStatus(saved, scanId, issueId) = "Fixed"}
  ELSE {}

C26_TwoFixesBothPersist ==
  /\ [][ \A job \in fixJobs :
           FixIssueFinish(job)
             => StoredFixed(scanKeys, job.scanId) \cup {job.issueId}
                  \subseteq StoredFixed(scanKeys', job.scanId) ]_vars
  /\ [](fixJobs # {} => isFixing # "null")

\* ------------------------------------------------------------------------
\* C27: clearScanHistory run for tenant A leaves every storage entry that
\* belongs to another tenant B unchanged: scanHistory_B keeps its summaries
\* and the snapshot of every scan listed in it is still readable.
\* ------------------------------------------------------------------------
C27_ClearLeavesOtherTenants ==
  [][ ClearScanHistory =>
        \A other \in Tenants \ {tenantId} :
          /\ other \in DOMAIN historyKeys
               => other \in DOMAIN historyKeys' /\ historyKeys'[other] = historyKeys[other]
          /\ \A id \in SummaryIds(StoredHistory(other)) \cap DOMAIN scanKeys :
               id \in DOMAIN scanKeys' /\ scanKeys'[id] = scanKeys[id] ]_vars

\* ------------------------------------------------------------------------
\* C28: when startScan cannot produce a scan (no access token or tenant id,
\* or an error while generating or persisting it) it returns null, leaves
\* storage and the scan history unchanged and resets isScanning to false, and
\* the Dashboard then neither announces a successful scan nor navigates to a
\* results page.
\* ------------------------------------------------------------------------
\* a step in which startScan ends without a scan
StartScanEndsWithoutScan ==
  \/ HandleStartScan /\ (accessToken = "null" \/ tenantId = "null")
  \/ \E input \in ScanInputs : \E stage \in FailureStages : StartScanFails(input, stage)

C28_FailedScanChangesNothing ==
  [][ StartScanEndsWithoutScan =>
        /\ lastOp'.returned = "null"
        /\ historyKeys' = historyKeys
        /\ scanKeys' = scanKeys
        /\ scanHistory' = scanHistory
        /\ ~isScanning'
        /\ ~lastOp'.announced
        /\ lastOp'.navigatedTo = "none" ]_vars

\* ------------------------------------------------------------------------
\* C29: in every reachable state of the auth provider, isAuthenticated = true
\* implies that accessToken is a non-null token and tenantId is a non-null
\* tenant identifier, including after an authorization callback whose ID
\* token cannot be parsed or carries no tenant id.
\* ------------------------------------------------------------------------
C29_AuthenticatedHasTokenAndTenant ==
  session.isAuthenticated =>
    /\ session.accessToken # 0
    /\ session.tenantId # "null"
    /\ session.tenantId # NoTenantId

\* ------------------------------------------------------------------------
\* C30: every ScanSummary stored under scanHistory_<T> has tenantId T; after
\* any sequence of logins, logouts and scans, a scan run for one tenant
\* never carries the summaries of another tenant's scans into its own
\* history list.
\* ------------------------------------------------------------------------
C30_HistoryHoldsOwnTenantOnly ==
  \A T \in Tenants :
    \A i \in 1..Len(StoredHistory(T)) : StoredHistory(T)[i].tenantId = T
====
